---------------------------- MODULE Spec2Model ----------------------------
(***************************************************************************)
(* BiteGraph: the record-linkage scripts and the core library classes.     *)
(*                                                                         *)
(*   scripts/fdc_map_eval.py    evaluate (remote mode: cache, retrying     *)
(*                              fetch, request budget, scoring; local      *)
(*                              mode: token index, candidate selection)    *)
(*   scripts/osm_region_ingest.py   match_regions (override, exact         *)
(*                              normalized, threshold ladder)              *)
(*   bitegraph/core/registry.py AdapterRegistry (register, get)            *)
(*   bitegraph/core/pipeline.py PipelineRunner (run)                       *)
(*   bitegraph/core/classify_rules.py   RuleBasedClassifier (classify)     *)
(*   bitegraph/core/map_templates.py    TemplateIngredientMapper           *)
(*                              (_best_dish_match)                         *)
(*                                                                         *)
(* The specifications of the module:                                       *)
(*   SpecRemote    one run of evaluate without a local index               *)
(*   SpecRegions   one call of match_regions                               *)
(*   SpecLocal     load_local_index followed by evaluate with the index    *)
(*   SpecAll       any one of the three above                              *)
(*   SpecNorm      the normalizers applied to a text and to their output   *)
(*   SpecRegistry  calls of register and get on one AdapterRegistry        *)
(*   SpecPipeline  one call of PipelineRunner.run                          *)
(*   SpecClassifier    one call of RuleBasedClassifier.classify            *)
(*   SpecCatalog   SpecLocal over catalogs with longer descriptions        *)
(*   SpecBlend     SpecRemote with the merchant signal and branded foods   *)
(*   SpecMapper    one call of _best_dish_match                            *)
(*   SpecTies      any one of SpecBlend, SpecCatalog, SpecMapper           *)
(*   SpecLimit     one call of limit_items                                 *)
(*                                                                         *)
(* Texts are sequences of one-character strings, so that normalize,        *)
(* normalize_key and tokenize are computed character by character as the   *)
(* regular expressions of the source compute them.  The alphabet is ASCII. *)
(***************************************************************************)
EXTENDS Integers, Sequences, FiniteSets, TLC

VARIABLES
    \* ---- evaluate, both modes: arguments (fdc_map_eval.py 302-317) ----
    min_score,      \* --min-score, in thousandths of a point
    include_merchant,   \* --include-merchant
    \* ---- evaluate, both modes: counters and summary (319-330, 456-484) ----
    per_kind,       \* dict kind -> number of items met
    matched_kind,   \* dict kind -> number of items accepted
    summary,        \* <<>> (not built yet) or <<the summary dict>>
    \* ---- evaluate, remote mode (fdc_map_eval.py 302-484) ----
    items,          \* the input items, in input order
    retries,        \* --retries
    max_requests,   \* --max-requests: <<>> (None) or <<B>>
    store,          \* the cache file: the sequence of its lines
    store0,         \* history: the cache file as the run found it
    cache,          \* the dict load_cache built at the start of the run
    pc,             \* "loop" | "fetch" | "done" | "aborted"
    idx,            \* position of the item being processed (1-based)
    attempt,        \* fetch_with_retry's local counter
    request_count,  \* evaluate's local counter
    results,        \* the MatchResult list
    how,            \* history: how each result got its foods
    scored_foods,   \* history: per result, the foods that were scored
    net_calls,      \* history: calls of fetch_fdc made in the run
    responses,      \* history: what fetch_fdc answered in the current or
                    \* the last call of fetch_with_retry, in order
    outcome,        \* history: how that call of fetch_with_retry ended
    \* ---- match_regions (osm_region_ingest.py 82-121) ----
    cities,         \* the city names to match, in order
    regions,        \* the region catalog
    overrides,      \* the override map
    thresholds,     \* the threshold list, as parse_thresholds returned it
    matched,        \* dict city -> region
    unmatched,      \* list of cities
    meta,           \* dict city -> method and score
    rpc,            \* "loop" | "done"
    cidx,           \* position of the city being processed (1-based)
    steps,          \* history: per processed city, whether normalize_key
                    \* was applied to it and how often extractOne was called
    \* ---- load_local_index and evaluate, local mode (fdc_map_eval.py) ----
    catalog,        \* the rows of food.csv, in file order
    records,        \* list of FdcRecord
    token_index,    \* dict token -> list of record positions
    max_candidates, \* --max-candidates: <<>> (None) or <<N>>
    litems,         \* the input items of the local-mode run
    lpc,            \* "index" | "eval" | "done"
    ridx,           \* position of the catalog row being read (1-based)
    lidx,           \* position of the item being processed (1-based)
    lresults,       \* the MatchResult list
    scored,         \* history: per result, the candidate list that was scored
    \* ---- the normalizers, applied to one text ----
    ntext,          \* the input text
    nout,           \* fdc_map_eval.normalize: the outputs of successive calls
    fout,           \* fdc_map_eval.normalize_key: the same
    kout,           \* osm_region_ingest.normalize_key: the same
    npc,            \* the next call: "normalize" | "fdc_key" | "key" | "done"
    \* ---- AdapterRegistry (bitegraph/core/registry.py) ----
    adapters,       \* self._adapters: dict source_id -> adapter
    reg_calls,      \* history: the calls of register, with how each ended
    got,            \* history: the last call of get and what it returned
    regpc,          \* "open" while the registry is in use, else "idle"
    \* ---- PipelineRunner (bitegraph/core/pipeline.py) ----
    stages,         \* which stages the runner was constructed with
    raw_items,      \* the argument of run
    presults,       \* run's local list `results`
    ppc,            \* "loop" | "done" | "idle"
    \* ---- RuleBasedClassifier (bitegraph/core/classify_rules.py) ----
    classifier,     \* the classifier's attributes, as __init__ set them
    citem,          \* the argument of classify
    cresult,        \* <<>> before classify returns, then <<its result>>
    \* ---- limit_items (fdc_map_eval.py 212-232) ----
    lim_args,       \* the arguments of the call
    lim_out,        \* <<>> before the call returns, then <<its result>>
    \* ---- TemplateIngredientMapper (bitegraph/core/map_templates.py) ----
    dishes,         \* self.dishes
    match_threshold,    \* self.match_threshold
    dish_name,      \* the argument of _best_dish_match
    dish_out        \* <<>> before the call returns, then <<its result>>

remoteVars == <<items, retries, max_requests, store, store0, cache, pc, idx,
                attempt, request_count, results, how, scored_foods, net_calls, responses,
                outcome>>

regionVars == <<cities, regions, overrides, thresholds, matched, unmatched,
                meta, rpc, cidx, steps>>

localVars == <<catalog, records, token_index, max_candidates, litems, lpc,
               ridx, lidx, lresults, scored>>

normVars == <<ntext, nout, fout, kout, npc>>

sumVars == <<per_kind, matched_kind, summary>>

registryVars == <<adapters, reg_calls, got, regpc>>

coreVars == <<stages, raw_items, presults, ppc, classifier, citem, cresult,
              lim_args, lim_out, dishes, match_threshold, dish_name, dish_out>>

evalArgs == <<min_score, include_merchant>>

vars == <<evalArgs, sumVars, remoteVars, regionVars, localVars, normVars,
          registryVars, coreVars>>

\* What the actions of one specification leave alone: the state of the
\* others, and the arguments of evaluate, which no step assigns.
notRemote   == <<evalArgs, regionVars, localVars, normVars, registryVars,
                coreVars>>
notRegions  == <<evalArgs, sumVars, remoteVars, localVars, normVars, registryVars,
                coreVars>>
notLocal    == <<evalArgs, remoteVars, regionVars, normVars, registryVars,
                coreVars>>
notNorm     == <<evalArgs, sumVars, remoteVars, regionVars, localVars, registryVars,
                coreVars>>
notRegistry == <<evalArgs, sumVars, remoteVars, regionVars, localVars, normVars,
                coreVars>>
notCore     == <<evalArgs, sumVars, remoteVars, regionVars, localVars, normVars,
                registryVars>>
notPipeline   == <<classifier, citem, cresult, lim_args, lim_out, dishes,
                  match_threshold, dish_name, dish_out>>
notClassifier == <<stages, raw_items, presults, ppc, lim_args, lim_out, dishes,
                  match_threshold, dish_name, dish_out>>
notLimit      == <<stages, raw_items, presults, ppc, classifier, citem, cresult,
                  dishes, match_threshold, dish_name, dish_out>>
notMapper     == <<stages, raw_items, presults, ppc, classifier, citem, cresult,
                  lim_args, lim_out>>

-----------------------------------------------------------------------------
(***************************************************************************)
(* Generic helpers on sequences and optional values.                       *)
(***************************************************************************)
Range(s) == {s[i] : i \in 1..Len(s)}

\* Python's None is the empty tuple, a present value v is <<v>>.
None == <<>>
Some(v) == <<v>>

Max2(a, b) == IF a >= b THEN a ELSE b

\* All sequences over S of length lo..hi.
SeqsOf(S, lo, hi) == UNION {[1..n -> S] : n \in lo..hi}

-----------------------------------------------------------------------------
(***************************************************************************)
(* Characters.                                                             *)
(***************************************************************************)
UPPER == <<"A","B","C","D","E","F","G","H","I","J","K","L","M",
           "N","O","P","Q","R","S","T","U","V","W","X","Y","Z">>
LOWER == <<"a","b","c","d","e","f","g","h","i","j","k","l","m",
           "n","o","p","q","r","s","t","u","v","w","x","y","z">>
DIGITS == {"0","1","2","3","4","5","6","7","8","9"}
SPACES == {" ", "\t", "\n"}

\* str.lower() on one ASCII character.
LowerChar(c) ==
    IF \E i \in 1..Len(UPPER) : UPPER[i] = c
    THEN LOWER[CHOOSE i \in 1..Len(UPPER) : UPPER[i] = c]
    ELSE c

\* str.lower()
Lowered(text) == [i \in 1..Len(text) |-> LowerChar(text[i])]

\* re.sub(r"[^a-z0-9\s]", " ", s)
SubNonAlnum(s) ==
    [i \in 1..Len(s) |->
        IF s[i] \in Range(LOWER) \cup DIGITS \cup SPACES THEN s[i] ELSE " "]

\* re.sub(r"\s+", " ", s): every maximal run of whitespace becomes one space.
RECURSIVE CollapseSpaces(_)
CollapseSpaces(s) ==
    IF s = <<>> THEN <<>>
    ELSE IF Head(s) \in SPACES
         THEN IF Len(s) >= 2 /\ s[2] \in SPACES
              THEN CollapseSpaces(Tail(s))
              ELSE <<" ">> \o CollapseSpaces(Tail(s))
         ELSE <<Head(s)>> \o CollapseSpaces(Tail(s))

\* str.strip()
RECURSIVE LStrip(_)
LStrip(s) ==
    IF s # <<>> /\ Head(s) \in SPACES THEN LStrip(Tail(s)) ELSE s

RECURSIVE RStrip(_)
RStrip(s) ==
    IF s # <<>> /\ s[Len(s)] \in SPACES
    THEN RStrip(SubSeq(s, 1, Len(s) - 1))
    ELSE s

Strip(s) == RStrip(LStrip(s))

\* str.split(): the maximal runs of non-whitespace characters, in order.
RECURSIVE SplitFrom(_, _)
SplitFrom(s, word) ==
    IF s = <<>>
    THEN IF word = <<>> THEN <<>> ELSE <<word>>
    ELSE IF Head(s) \in SPACES
         THEN (IF word = <<>> THEN <<>> ELSE <<word>>) \o SplitFrom(Tail(s), <<>>)
         ELSE SplitFrom(Tail(s), Append(word, Head(s)))

Split(s) == SplitFrom(s, <<>>)

\* text.replace("  ", " "): each pair of blanks, left to right, becomes one.
RECURSIVE ReplacePairs(_)
ReplacePairs(s) ==
    IF s = <<>> THEN <<>>
    ELSE IF Len(s) >= 2 /\ s[1] \in SPACES /\ s[2] \in SPACES
         THEN <<" ">> \o ReplacePairs(Tail(Tail(s)))
         ELSE <<Head(s)>> \o ReplacePairs(Tail(s))

\* Mutant of normalize: pairs of blanks are replaced once instead of every
\* run of whitespace being collapsed.
normalize_ReplacePairs(text) == Strip(ReplacePairs(SubNonAlnum(Lowered(text))))

\* fdc_map_eval.normalize (lines 73-75)
normalize(text) == Strip(CollapseSpaces(SubNonAlnum(Lowered(text))))

\* fdc_map_eval.normalize_key (lines 78-80): the same two substitutions.
normalize_key_fdc(text) == Strip(CollapseSpaces(SubNonAlnum(Lowered(text))))

\* No AdapterRegistry is in use.
RegistryIdle ==
    adapters = <<>> /\ reg_calls = <<>> /\ got = <<>> /\ regpc = "idle"

\* No PipelineRunner is in use.
PipelineIdle ==
    stages = <<>> /\ raw_items = <<>> /\ presults = <<>> /\ ppc = "idle"

\* No RuleBasedClassifier is in use.
ClassifierIdle ==
    classifier = <<>> /\ citem = <<>> /\ cresult = <<>>

\* limit_items is not called.
LimitIdle ==
    lim_args = <<>> /\ lim_out = <<>>

\* No TemplateIngredientMapper is in use.
MapperIdle ==
    dishes = <<>> /\ match_threshold = 0 /\ dish_name = <<>> /\ dish_out = <<>>

\* None of the library classes and helpers above is in use.
CoreIdle ==
    PipelineIdle /\ ClassifierIdle /\ LimitIdle /\ MapperIdle

\* No normalizer is being applied on its own.
NormIdle ==
    ntext = <<>> /\ nout = <<>> /\ fout = <<>> /\ kout = <<>> /\ npc = "idle"


-----------------------------------------------------------------------------
(***************************************************************************)
(* rapidfuzz.fuzz.WRatio, the library scorer both scripts call.  It is not *)
(* code of the repository; it is computed here as the library computes it  *)
(* for the texts this model draws: 0 for an empty text; the Indel ratio    *)
(* 200 * LCS / (|a| + |b|) when the lengths are within a factor 1.5; and   *)
(* otherwise the larger of the Indel ratio and the scaled partial ratio    *)
(* (scale 0.9 below a length factor 8, else 0.6), the partial ratio being  *)
(* 100 when the shorter text occurs in the longer one.  The token-sort and *)
(* token-set terms of the library never exceed these on the model's texts. *)
(*                                                                         *)
(* The library returns a float.  A score is held here in thousandths of a  *)
(* point, rounded down, so that round(score, 2) and int(score) of the      *)
(* source are conversions that lose something.                             *)
(***************************************************************************)
\* Thousandths of a point in one point.
SCORE_UNIT == 1000

\* round(score, 2) (lines 360, 376, 435, 451): the score in hundredths of a
\* point.
Round2(score) == (score + 5) \div 10

\* int(score) (osm_region_ingest.py line 117): the whole points.
IntScore(score) == score \div SCORE_UNIT

RECURSIVE LCSLen(_, _)
LCSLen(a, b) ==
    IF a = <<>> \/ b = <<>> THEN 0
    ELSE IF Head(a) = Head(b)
         THEN 1 + LCSLen(Tail(a), Tail(b))
         ELSE Max2(LCSLen(Tail(a), b), LCSLen(a, Tail(b)))

Ratio(a, b) == (200 * SCORE_UNIT * LCSLen(a, b)) \div (Len(a) + Len(b))

Contains(long, short) ==
    \E k \in 0..(Len(long) - Len(short)) :
        SubSeq(long, k + 1, k + Len(short)) = short

PartialRatio(a, b) ==
    LET short == IF Len(a) <= Len(b) THEN a ELSE b
        long  == IF Len(a) <= Len(b) THEN b ELSE a
    IN  IF Contains(long, short) THEN 100 * SCORE_UNIT ELSE Ratio(a, b)

WRatio(a, b) ==
    IF a = <<>> \/ b = <<>> THEN 0
    ELSE LET lmax == Max2(Len(a), Len(b))
             lmin == IF Len(a) <= Len(b) THEN Len(a) ELSE Len(b)
         IN  IF 2 * lmax < 3 * lmin
             THEN Ratio(a, b)
             ELSE LET scale == IF lmax < 8 * lmin THEN 90 ELSE 60
                  IN  Max2(Ratio(a, b), (PartialRatio(a, b) * scale) \div 100)

-----------------------------------------------------------------------------
(***************************************************************************)
(* fdc_map_eval.py: data types, cache file, retry rule.                    *)
(***************************************************************************)
\* The texts of the remote-mode runs.
TXT_TEA     == <<"T","e","a">>
TXT_RUM     == <<"R","u","m">>
TXT_TEA_BAG == <<"T","e","a"," ","B","a","g">>

\* --fallback-types default (line 572), split on commas (line 591)
FALLBACK_TYPES == <<"Branded", "Foundation", "FNDDS", "SR Legacy">>

\* DEFAULT_KIND_TO_TYPES (lines 26-31)
DEFAULT_KIND_TO_TYPES ==
    [k \in {"prepared_meal", "grocery_packaged", "grocery_raw", "beverage"} |->
        CASE k = "prepared_meal"    -> <<"FNDDS", "SR Legacy", "Foundation">>
          [] k = "grocery_packaged" -> <<"Branded">>
          [] k = "grocery_raw"      -> <<"Foundation", "SR Legacy">>
          [] k = "beverage"         -> <<"FNDDS", "SR Legacy", "Foundation">>]

\* pick_data_types: food_kind is None (<<>>) or <<kind>>; "not food_kind" is
\* also true of the empty string.
pick_data_types(food_kind, fallback) ==
    IF food_kind = None \/ food_kind = Some("") THEN fallback
    ELSE IF food_kind[1] \in DOMAIN DEFAULT_KIND_TO_TYPES
         THEN DEFAULT_KIND_TO_TYPES[food_kind[1]]
         ELSE fallback

\* The cache key f"{item.item_name}|{','.join(data_types)}" (line 382), kept
\* as the pair it is built from.
CacheKey(item) ==
    <<item.item_name, pick_data_types(item.food_kind, FALLBACK_TYPES)>>

\* Mutant of load_cache: the first line of a key is kept.
load_cache_FirstWins(file) ==
    [k \in {file[i].key : i \in 1..Len(file)} |->
        LET first == CHOOSE i \in 1..Len(file) :
                         /\ file[i].key = k
                         /\ \A j \in 1..(i - 1) : file[j].key # k
        IN  file[first].foods]

\* load_cache: one dict entry per key of the file; a later line of the same
\* key replaces the earlier one (cache[key] = ...).
load_cache(file) ==
    [k \in {file[i].key : i \in 1..Len(file)} |->
        LET last == CHOOSE i \in 1..Len(file) :
                        /\ file[i].key = k
                        /\ \A j \in (i + 1)..Len(file) : file[j].key # k
        IN  file[last].foods]

\* append_cache: one more line at the end of the file.
append_cache(file, key, foods) == Append(file, [key |-> key, foods |-> foods])

\* What one call of fetch_fdc can do: return the foods of the answer, raise
\* urllib.error.HTTPError with a status, or raise another exception (a
\* transport error, a timeout, an undecodable body).
HTTP_RETRYABLE == {429, 503}
HTTP_OTHER     == {500}

FOOD_TEA_BAG ==
    [fdcId |-> 11, description |-> TXT_TEA_BAG, dataType |-> "Branded",
     brandOwner |-> <<>>, brandName |-> <<>>]

FOOD_TEAS ==
    [fdcId |-> 12, description |-> <<"T","e","a","s">>, dataType |-> "Branded",
     brandOwner |-> <<>>, brandName |-> <<>>]

\* The foods of an answer: none, or one food.
Payloads == { <<>>, <<FOOD_TEAS>> }

RespOk(foods)  == [kind |-> "ok",    code |-> 200,  foods |-> foods]
RespHttp(code) == [kind |-> "http",  code |-> code, foods |-> <<>>]
RespError      == [kind |-> "error", code |-> 0,    foods |-> <<>>]

\* No answer yet.
RespNone       == [kind |-> "none",  code |-> 0,    foods |-> <<>>]

\* How a call of fetch_with_retry stands: "none" (never called), "pending",
\* "returned" (resp is the answer whose foods it returned) or "raised" (resp
\* is the failure it let through).
Outcome(state, resp) == [state |-> state, resp |-> resp]

Responses ==
    {RespOk(p) : p \in Payloads}
        \cup {RespHttp(c) : c \in HTTP_RETRYABLE \cup HTTP_OTHER}
        \cup {RespError}

\* Mutant of ShouldRetry: the attempt limit is off by one.
ShouldRetry_OffByOne(resp, att, maxRetries) ==
    /\ resp.kind = "http"
    /\ resp.code \in HTTP_RETRYABLE
    /\ att <= maxRetries

\* Mutant of ShouldRetry: every HTTP error is retried.
ShouldRetry_AnyStatus(resp, att, maxRetries) ==
    /\ resp.kind = "http"
    /\ att < maxRetries

\* fetch_with_retry, line 191: the failure is retried.
ShouldRetry(resp, att, maxRetries) ==
    /\ resp.kind = "http"
    /\ resp.code \in HTTP_RETRYABLE
    /\ att < maxRetries

\* Mutant of Absorbs: only HTTPError is caught.
Absorbs_HttpOnly(resp) == resp.kind = "http"

\* evaluate, lines 394-399: the exception of a fetch is caught per item
\* (HTTPError by the first clause, every other Exception by the second).
Absorbs(resp) == resp.kind \in {"http", "error"}

-----------------------------------------------------------------------------
(***************************************************************************)
(* evaluate, remote mode: scoring of the foods of one item (lines 406-420) *)
(* and the MatchResult appended for it (lines 422-454).                    *)
(***************************************************************************)
\* --min-score default (line 561), in points
DEFAULT_MIN_SCORE == 70

\* 0.8 * score + 0.2 * brand_score (line 417)
Blend(score, brand_score) == (8 * score + 2 * brand_score) \div 10

\* The score of one candidate (lines 411-417).  An absent or empty text
\* field of the candidate is <<>> ("cand.get(...) or ''").
CandScore(item, cand, withMerchant) ==
    LET item_norm     == normalize(item.item_name)
        merchant_norm == IF item.merchant_name # <<>>
                         THEN normalize(item.merchant_name) ELSE <<>>
        primary       == WRatio(item_norm, normalize(cand.description))
        brand         == IF cand.brandOwner # <<>> THEN cand.brandOwner
                         ELSE cand.brandName
    IN  IF withMerchant /\ merchant_norm # <<>> /\ brand # <<>>
        THEN Blend(primary, WRatio(merchant_norm, normalize(brand)))
        ELSE primary

\* The loop of lines 410-420 over foods[1..n]: the pair <<best_food,
\* best_score>>, best_food being None or <<position in foods>>.
RECURSIVE BestRemote(_, _, _, _)
BestRemote(item, foods, withMerchant, n) ==
    IF n = 0 THEN <<None, 0>>
    ELSE LET prev  == BestRemote(item, foods, withMerchant, n - 1)
             score == CandScore(item, foods[n], withMerchant)
         IN  IF score > prev[2] THEN <<Some(n), score>> ELSE prev

\* Lines 422-454.
RemoteResult(item, foods, withMerchant, minScore) ==
    LET best == BestRemote(item, foods, withMerchant, Len(foods))
    IN  [item_name  |-> item.item_name,
         food_kind  |-> item.food_kind,
         fdc_id     |-> IF best[1] # None /\ best[2] >= minScore
                        THEN Some(foods[best[1][1]].fdcId) ELSE None,
         score      |-> Round2(best[2]),
         candidates |-> Len(foods)]

\* Line 422: the best food is accepted.
RemoteAccepts(item, foods, withMerchant, minScore) ==
    LET best == BestRemote(item, foods, withMerchant, Len(foods))
    IN  best[1] # None /\ best[2] >= minScore

-----------------------------------------------------------------------------
(***************************************************************************)
(* evaluate, both modes: the counters of the loop and the summary.         *)
(***************************************************************************)
\* kind_key = item.food_kind or "unknown" (line 327)
KindKey(item) ==
    IF item.food_kind = None \/ item.food_kind = Some("") THEN "unknown"
    ELSE item.food_kind[1]

\* Mutant of Bump: the counter is set to 1.
Bump_Resets(d, k) == [x \in DOMAIN d \cup {k} |-> IF x = k THEN 1 ELSE d[x]]

\* d[k] = d.get(k, 0) + 1 (lines 328, 348, 423)
Bump(d, k) ==
    [x \in DOMAIN d \cup {k} |->
        IF x = k THEN (IF k \in DOMAIN d THEN d[k] ELSE 0) + 1 ELSE d[x]]

\* sum(1 for r in results if r.fdc_id is not None) (line 462)
MatchedCount(res) == Cardinality({j \in 1..Len(res) : res[j].fdc_id # None})

\* The summary dict of lines 459-475, without its rates and timings.
Summary(its, res, pk, mk) ==
    [total_items      |-> Len(its),
     matched_items    |-> MatchedCount(res),
     per_kind         |-> pk,
     matched_per_kind |-> mk]

\* The counters before the loop (lines 321-322), no summary yet.
SummaryInit == per_kind = <<>> /\ matched_kind = <<>> /\ summary = None

-----------------------------------------------------------------------------
(***************************************************************************)
(* evaluate, remote mode: the run.                                         *)
(***************************************************************************)
MaxItems   == 2
MaxRetries == 2
MaxBudget  == 2

ITEM_TEA == [item_name |-> TXT_TEA, merchant_name |-> <<>>, food_kind |-> None]
ITEM_RUM == [item_name |-> TXT_RUM, merchant_name |-> <<>>, food_kind |-> None]

ItemPool == {ITEM_TEA, ITEM_RUM}

\* Cache files a run can find: none or empty, or the line an earlier run
\* appended for the first item.
\* A variant of line 318 that loads the cache file in local mode too.
evaluate_cache_AlwaysLoads(local, file) == load_cache(file)

\* evaluate, line 318: the cache dict at the start of the run; `local`
\* tells whether local_records was given.
evaluate_cache(local, file) == IF local THEN <<>> ELSE load_cache(file)

StorePool == { <<>>, append_cache(<<>>, CacheKey(ITEM_TEA), <<FOOD_TEA_BAG>>) }

\* match_regions is not called in a run of evaluate.
RegionsIdle ==
    /\ cities = <<>> /\ regions = <<>> /\ overrides = <<>> /\ thresholds = <<>>
    /\ matched = <<>> /\ unmatched = <<>> /\ meta = <<>>
    /\ rpc = "idle" /\ cidx = 0 /\ steps = <<>>

\* No local index is loaded (local_records is None).
LocalIdle ==
    /\ catalog = <<>> /\ records = <<>> /\ token_index = <<>>
    /\ max_candidates = None /\ litems = <<>>
    /\ lpc = "idle" /\ ridx = 0 /\ lidx = 0
    /\ lresults = <<>> /\ scored = <<>>

\* --min-score values of the runs: 0, the default, and a value with three
\* decimals (85.712).
MinScorePool == {0, DEFAULT_MIN_SCORE * SCORE_UNIT, 85712}

InitRemote ==
    /\ CoreIdle
    /\ SummaryInit
    /\ RegistryIdle
    /\ RegionsIdle
    /\ LocalIdle
    /\ NormIdle
    /\ min_score \in MinScorePool
    /\ include_merchant = FALSE
    /\ items \in SeqsOf(ItemPool, 0, MaxItems)
    /\ retries \in 0..MaxRetries
    \* The threshold bears on the scoring only, not on the fetch: the runs
    \* with retries are made with the default threshold.
    /\ min_score # DEFAULT_MIN_SCORE * SCORE_UNIT => retries = 0
    /\ max_requests \in {None} \cup {Some(b) : b \in 0..MaxBudget}
    /\ store \in StorePool
    /\ store0 = store
    /\ cache = evaluate_cache(FALSE, store)     \* line 318
    /\ pc = "loop"
    /\ idx = 1
    /\ attempt = 0
    /\ request_count = 0
    /\ results = <<>>
    /\ how = <<>>
    /\ scored_foods = <<>>
    /\ net_calls = 0
    /\ responses = <<>>
    /\ outcome = Outcome("none", RespNone)

\* The rest of the loop body once the foods of the item are known: score
\* them, append the result, go to the next item.
FinishItem(foods, tag) ==
    /\ results' = Append(results,
                         RemoteResult(items[idx], foods, include_merchant, min_score))
    /\ how' = Append(how, tag)
    /\ scored_foods' = Append(scored_foods, foods)
    /\ matched_kind' =
          IF RemoteAccepts(items[idx], foods, include_merchant, min_score)
          THEN Bump(matched_kind, KindKey(items[idx]))
          ELSE matched_kind
    /\ UNCHANGED summary
    /\ idx' = idx + 1
    /\ pc' = "loop"

BudgetSpent ==
    max_requests # None /\ request_count >= max_requests[1]

\* Lines 382-384 and 406-454: the key is in the dict loaded at the start.
CacheHit ==
    /\ UNCHANGED notRemote
    /\ pc = "loop" /\ idx <= Len(items)
    /\ per_kind' = Bump(per_kind, KindKey(items[idx]))
    /\ CacheKey(items[idx]) \in DOMAIN cache
    /\ FinishItem(cache[CacheKey(items[idx])], "cache")
    /\ UNCHANGED <<items, retries, max_requests, store, store0, cache, attempt,
                   request_count, net_calls, responses, outcome>>

\* Lines 384-387: a miss with the budget spent.
BudgetExhausted ==
    /\ UNCHANGED notRemote
    /\ pc = "loop" /\ idx <= Len(items)
    /\ per_kind' = Bump(per_kind, KindKey(items[idx]))
    /\ CacheKey(items[idx]) \notin DOMAIN cache
    /\ BudgetSpent
    /\ FinishItem(<<>>, "budget")
    /\ UNCHANGED <<items, retries, max_requests, store, store0, cache, attempt,
                   request_count, net_calls, responses, outcome>>

\* Lines 388-392 and 186: a miss within the budget enters fetch_with_retry.
BeginFetch ==
    /\ UNCHANGED notRemote
    /\ pc = "loop" /\ idx <= Len(items)
    /\ per_kind' = Bump(per_kind, KindKey(items[idx]))
    /\ UNCHANGED <<matched_kind, summary>>
    /\ CacheKey(items[idx]) \notin DOMAIN cache
    /\ ~BudgetSpent
    /\ pc' = "fetch"
    /\ attempt' = 0
    /\ responses' = <<>>
    /\ outcome' = Outcome("pending", RespNone)
    /\ UNCHANGED <<items, retries, max_requests, store, store0, cache, idx,
                   request_count, results, how, scored_foods, net_calls>>

\* Line 189 returns; then lines 393, 400-404 and 406-454.
FetchReturns(resp) ==
    /\ UNCHANGED notRemote
    /\ UNCHANGED per_kind
    /\ pc = "fetch"
    /\ resp.kind = "ok"
    /\ net_calls' = net_calls + 1
    /\ responses' = Append(responses, resp)
    /\ outcome' = Outcome("returned", resp)
    /\ store' = append_cache(store, CacheKey(items[idx]), resp.foods)
    /\ request_count' = request_count + 1
    /\ FinishItem(resp.foods, "fetched")
    /\ UNCHANGED <<items, retries, max_requests, store0, cache, attempt>>

\* Lines 190-194: the failure is retried after a sleep.
FetchRetries(resp) ==
    /\ UNCHANGED notRemote
    /\ UNCHANGED sumVars
    /\ pc = "fetch"
    /\ resp.kind # "ok"
    /\ ShouldRetry(resp, attempt, retries)
    /\ net_calls' = net_calls + 1
    /\ responses' = Append(responses, resp)
    /\ attempt' = attempt + 1
    /\ UNCHANGED <<items, retries, max_requests, store, store0, cache, pc, idx,
                   request_count, results, how, scored_foods, outcome>>

\* Line 195 (or an exception line 190 does not catch) leaves
\* fetch_with_retry; then lines 394-404 and 406-454.
FetchRaises(resp) ==
    /\ UNCHANGED notRemote
    /\ UNCHANGED per_kind
    /\ pc = "fetch"
    /\ resp.kind # "ok"
    /\ ~ShouldRetry(resp, attempt, retries)
    /\ net_calls' = net_calls + 1
    /\ responses' = Append(responses, resp)
    /\ outcome' = Outcome("raised", resp)
    /\ IF Absorbs(resp)
       THEN /\ request_count' = request_count + 1
            /\ FinishItem(<<>>, "failed")
       ELSE /\ pc' = "aborted"
            /\ UNCHANGED <<request_count, results, how, scored_foods, idx,
                           matched_kind, summary>>
    /\ UNCHANGED <<items, retries, max_requests, store, store0, cache, attempt>>

\* The loop of line 326 ends; lines 456-484.
EvaluateDone ==
    /\ UNCHANGED notRemote
    /\ summary' = Some(Summary(items, results, per_kind, matched_kind))
    /\ UNCHANGED <<per_kind, matched_kind>>
    /\ pc = "loop" /\ idx > Len(items)
    /\ pc' = "done"
    /\ UNCHANGED <<items, retries, max_requests, store, store0, cache, idx,
                   attempt, request_count, results, how, scored_foods, net_calls, responses,
                   outcome>>

NextRemote ==
    \/ CacheHit
    \/ BudgetExhausted
    \/ BeginFetch
    \/ \E resp \in Responses : FetchReturns(resp)
    \/ \E resp \in Responses : FetchRetries(resp)
    \/ \E resp \in Responses : FetchRaises(resp)
    \/ EvaluateDone

SpecRemote == InitRemote /\ [][NextRemote]_vars

-----------------------------------------------------------------------------
(***************************************************************************)
(* Claims on fetch_with_retry and on the remote-mode run.                  *)
(***************************************************************************)
IsRetryable(resp) == resp.kind = "http" /\ resp.code \in HTTP_RETRYABLE
IsFailure(resp)   == resp.kind \in {"http", "error"}

FetchOver == outcome.state \in {"returned", "raised"}

\* The keys this run appended to the cache file.
AppendedKeys == {store[i].key : i \in (Len(store0) + 1)..Len(store)}

LinesOf(file, key) == {i \in 1..Len(file) : file[i].key = key}

\* C1: a call of fetch_with_retry makes at most retries + 1 attempts; it is
\* still running after up to `retries` retryable failures; an answer that
\* follows them is returned as it is; and a retryable failure ends the call
\* only as attempt retries + 1, when it is raised.
C1_RetryAttempts ==
    LET n == Len(responses)
    IN  /\ n <= retries + 1
        /\ outcome.state = "pending" => (pc = "fetch" /\ n <= retries)
        /\ FetchOver =>
              /\ n >= 1
              /\ outcome.resp = responses[n]
              /\ responses[n].kind = "ok" => outcome.state = "returned"
              /\ IsRetryable(responses[n]) =>
                    (outcome.state = "raised" /\ n = retries + 1)

\* C1 witness: two retryable failures, then the answer, with retries = 2.
C1_Witness ==
    /\ retries = 2
    /\ Len(responses) = 3
    /\ IsRetryable(responses[1]) /\ IsRetryable(responses[2])
    /\ outcome = Outcome("returned", RespOk(<<FOOD_TEAS>>))

\* C2: a failure that is not HTTP 429 or 503 is raised by the attempt that
\* meets it: it is the last answer of the call, also after retried attempts.
C2_OnlyRetryableRetried ==
    \A j \in 1..Len(responses) :
        (IsFailure(responses[j]) /\ ~IsRetryable(responses[j])) =>
            /\ j = Len(responses)
            /\ outcome = Outcome("raised", responses[j])
            /\ pc # "fetch"

\* C2 witness: a transport error after a retried 429.
C2_Witness ==
    /\ retries >= 1
    /\ responses = <<RespHttp(429), RespError>>
    /\ outcome = Outcome("raised", RespError)

\* C3 (as claimed): once a fetch for key k succeeded and was appended, no
\* later item of the run with key k causes a remote call, and each such item
\* is answered from the cache.
C3_CachedWithinRun ==
    /\ pc = "fetch" => CacheKey(items[idx]) \notin AppendedKeys
    /\ \A i, j \in 1..Len(how) :
          (i < j /\ how[i] = "fetched"
                 /\ CacheKey(items[i]) = CacheKey(items[j]))
              => how[j] = "cache"

\* C4 (as claimed): a finished run that found at most one line per key
\* leaves exactly one line for every key fetched with success, and no key
\* with two lines.
C4_OneEntryPerKey ==
    (pc = "done" /\ \A k \in DOMAIN load_cache(store0) :
                        Cardinality(LinesOf(store0, k)) <= 1)
        => /\ \A j \in 1..Len(how) :
                 how[j] = "fetched" =>
                     Cardinality(LinesOf(store, CacheKey(items[j]))) = 1
           /\ \A k \in DOMAIN load_cache(store) :
                 Cardinality(LinesOf(store, k)) <= 1

\* C5 (as claimed): with a budget B, the calls of fetch_fdc made in the run,
\* retried attempts included, never exceed B; and an uncached item met with
\* the budget spent gets no foods and no call.
C5_BudgetBoundsCalls ==
    max_requests # None =>
        /\ net_calls <= max_requests[1]
        /\ \A j \in 1..Len(how) :
              how[j] = "budget" =>
                  results[j].candidates = 0 /\ results[j].fdc_id = None

\* C6: a failed fetch is absorbed: the run is not aborted, the item's result
\* is unmatched with score 0 and no candidates, the cache file grows only by
\* the fetches that succeeded, and a finished run has a result per item.
C6_FailureAbsorbed ==
    /\ pc # "aborted"
    /\ \A j \in 1..Len(how) :
          how[j] = "failed" =>
              /\ results[j].fdc_id = None
              /\ results[j].score = 0
              /\ results[j].candidates = 0
    /\ Len(store) - Len(store0)
          = Cardinality({j \in 1..Len(how) : how[j] = "fetched"})
    /\ AppendedKeys \subseteq
          {CacheKey(items[j]) : j \in {x \in 1..Len(how) : how[x] = "fetched"}}
    /\ pc = "done" => Len(results) = Len(items)

\* C6 witness: a transport error for the first item, a matched second item.
C6_Witness ==
    /\ pc = "done"
    /\ Len(how) >= 2
    /\ how[1] = "failed" /\ how[2] = "fetched"
    /\ results[2].fdc_id # None

-----------------------------------------------------------------------------
(***************************************************************************)
(* osm_region_ingest.py: normalize_key, parse_thresholds, match_regions.   *)
(***************************************************************************)
\* STOPWORDS (line 42)
STOPWORDS == { <<"c","i","t","y">>, <<"m","e","t","r","o">>,
               <<"m","e","t","r","o","p","o","l","i","t","a","n">>,
               <<"a","r","e","a">> }

\* "".join(tokens)
RECURSIVE Concat(_)
Concat(words) ==
    IF words = <<>> THEN <<>> ELSE Head(words) \o Concat(Tail(words))

KeepsToken(token) == token # <<>> /\ token \notin STOPWORDS

\* osm_region_ingest.normalize_key (lines 46-49)
normalize_key(value) ==
    Concat(SelectSeq(Split(SubNonAlnum(Lowered(value))), KeepsToken))

\* DEFAULT_THRESHOLDS (line 43)
DEFAULT_THRESHOLDS == <<90, 85, 80, 75>>

\* The comma-separated pieces of --thresholds after strip(): an integer
\* literal, an empty piece, or a piece int() rejects.
TokInt(n) == [kind |-> "int",   val |-> n]
TokEmpty  == [kind |-> "empty", val |-> 0]
TokJunk   == [kind |-> "junk",  val |-> 0]

IsIntToken(tok) == tok.kind = "int"

\* parse_thresholds (lines 69-79): the integers in the order given.
parse_thresholds(tokens) ==
    LET kept == SelectSeq(tokens, IsIntToken)
        ints == [i \in 1..Len(kept) |-> kept[i].val]
    IN  IF ints = <<>> THEN DEFAULT_THRESHOLDS ELSE ints

\* A dict as a function; d[k] = v.
DictSet(d, k, v) == [x \in DOMAIN d \cup {k} |-> IF x = k THEN v ELSE d[x]]

\* region_norm = {normalize_key(r): r for r in regions} (line 91): a later
\* region of the same key replaces the earlier one.
RegionNorm(regs) ==
    [k \in {normalize_key(regs[i]) : i \in 1..Len(regs)} |->
        LET last == CHOOSE i \in 1..Len(regs) :
                        /\ normalize_key(regs[i]) = k
                        /\ \A j \in (i + 1)..Len(regs) : normalize_key(regs[j]) # k
        IN  regs[last]]

\* region_list = list(region_norm.keys()) (line 92): the keys in the order
\* of their first insertion.
RECURSIVE RegionListFrom(_, _)
RegionListFrom(regs, seen) ==
    IF regs = <<>> THEN <<>>
    ELSE LET k == normalize_key(Head(regs))
         IN  IF k \in seen
             THEN RegionListFrom(Tail(regs), seen)
             ELSE <<k>> \o RegionListFrom(Tail(regs), seen \cup {k})

RegionList(regs) == RegionListFrom(regs, {})

\* rapidfuzz.process.extractOne(query, choices, scorer=fuzz.WRatio) (line
\* 109): None for no choices, else <<choice, score>> of the first choice
\* with the highest score.
RECURSIVE ExtractFrom(_, _, _)
ExtractFrom(query, choices, n) ==
    IF n = 0 THEN None
    ELSE LET prev  == ExtractFrom(query, choices, n - 1)
             score == WRatio(query, choices[n])
         IN  IF prev = None \/ score > prev[1][2]
             THEN Some(<<choices[n], score>>)
             ELSE prev

extractOne(query, choices) == ExtractFrom(query, choices, Len(choices))

\* Mutant of Ladder: the best candidate is accepted at the first threshold
\* whatever its score.
Ladder_AnyBest(ths, best, tried) ==
    IF ths = <<>> \/ best = None THEN [threshold |-> None, calls |-> tried + Len(ths)]
    ELSE [threshold |-> Some(Head(ths)), calls |-> tried + 1]

\* The loop of lines 108-113: the thresholds in list order; the first one
\* the best score reaches is used_threshold.  calls counts the calls of
\* extractOne (one per threshold tried).
RECURSIVE Ladder(_, _, _)
Ladder(ths, best, tried) ==
    IF ths = <<>> THEN [threshold |-> None, calls |-> tried]
    ELSE IF best # None /\ best[1][2] >= Head(ths) * SCORE_UNIT
         THEN [threshold |-> Some(Head(ths)), calls |-> tried + 1]
         ELSE Ladder(Tail(ths), best, tried + 1)

\* meta[city] (lines 97, 103, 117); method f"fuzzy_{used_threshold}" is kept
\* as the word and the threshold.
Meta(method, tier, score) == [method |-> method, tier |-> tier, score |-> score]

\* Mutant of Route: the exact-normalized check comes before the overrides.
Route_ExactFirst(city, ovr, regs) ==
    IF normalize_key(city) \in DOMAIN RegionNorm(regs) THEN "exact"
    ELSE IF city \in DOMAIN ovr THEN "override"
    ELSE "fuzzy"

\* Mutant of Route: the exact-normalized check is left out.
Route_NoExact(city, ovr, regs) ==
    IF city \in DOMAIN ovr THEN "override" ELSE "fuzzy"

\* The order of the checks of one loop iteration (lines 95, 101, 106).
Route(city, ovr, regs) ==
    IF city \in DOMAIN ovr THEN "override"
    ELSE IF normalize_key(city) \in DOMAIN RegionNorm(regs) THEN "exact"
    ELSE "fuzzy"

-----------------------------------------------------------------------------
(***************************************************************************)
(* match_regions: the call.                                                *)
(***************************************************************************)
MaxCities == 2

TXT_BONN        == <<"B","o","n","n">>
TXT_BERLIN      == <<"B","e","r","l","i","n">>
TXT_BERLIN_LC   == <<"b","e","r","l","i","n">>
TXT_BERLIN_CITY == <<"B","e","r","l","i","n"," ","C","i","t","y">>
TXT_BERLINN     == <<"B","e","r","l","i","n","n">>
TXT_BERLXN      == <<"B","e","r","l","x","n">>
TXT_YUMA        == <<"Y","u","m","a">>
TXT_YUMA_AZ     == <<"Y","u","m","a","A","Z">>

CityPool == {TXT_BONN, TXT_BERLIN, TXT_BERLIN_CITY, TXT_BERLINN, TXT_BERLXN,
             TXT_YUMA}

RegionCatalogs == { <<>>, <<TXT_BERLIN>>, <<TXT_BONN, TXT_BERLIN>>,
                    <<TXT_BERLIN, TXT_BERLIN_LC>> }

\* Override maps: none; a key that is also a region of the catalog; a key
\* mapped to a name outside the catalog (as DEFAULT_OVERRIDES, lines 36-40).
OverrideMaps == { <<>>,
                  [c \in {TXT_BERLIN} |-> TXT_BONN],
                  [c \in {TXT_YUMA} |-> TXT_YUMA_AZ] }

\* --thresholds, split on commas.
ThresholdArgs == { <<TokInt(90), TokInt(85), TokInt(80), TokInt(75)>>,
                   <<TokEmpty>>,
                   <<TokInt(75), TokInt(90)>>,
                   <<TokJunk, TokInt(85)>> }

\* evaluate is not run in a call of match_regions.
RemoteIdle ==
    /\ items = <<>> /\ retries = 0 /\ max_requests = None
    /\ store = <<>> /\ store0 = <<>> /\ cache = <<>>
    /\ pc = "idle" /\ idx = 0 /\ attempt = 0 /\ request_count = 0
    /\ results = <<>> /\ how = <<>> /\ scored_foods = <<>> /\ net_calls = 0 /\ responses = <<>>
    /\ outcome = Outcome("none", RespNone)

\* evaluate is not called: its arguments have no value that matters.
EvaluateIdle == min_score = 0 /\ include_merchant = FALSE

InitRegions ==
    /\ CoreIdle
    /\ SummaryInit
    /\ RegistryIdle
    /\ EvaluateIdle
    /\ RemoteIdle
    /\ LocalIdle
    /\ NormIdle
    /\ cities \in SeqsOf(CityPool, 0, MaxCities)
    /\ regions \in RegionCatalogs
    /\ overrides \in OverrideMaps
    /\ thresholds \in {parse_thresholds(a) : a \in ThresholdArgs}
    /\ matched = <<>>
    /\ unmatched = <<>>
    /\ meta = <<>>
    /\ rpc = "loop"
    /\ cidx = 1
    /\ steps = <<>>

Step(normalized, calls) == [normalized |-> normalized, extract_calls |-> calls]

\* Lines 95-98.
MatchOverride ==
    /\ UNCHANGED notRegions
    /\ rpc = "loop" /\ cidx <= Len(cities)
    /\ Route(cities[cidx], overrides, regions) = "override"
    /\ matched' = DictSet(matched, cities[cidx], overrides[cities[cidx]])
    /\ meta' = DictSet(meta, cities[cidx], Meta("override", 0, 100))
    /\ steps' = Append(steps, Step(FALSE, 0))
    /\ cidx' = cidx + 1
    /\ UNCHANGED <<cities, regions, overrides, thresholds, unmatched, rpc>>

\* Lines 100-104.
MatchExact ==
    /\ UNCHANGED notRegions
    /\ rpc = "loop" /\ cidx <= Len(cities)
    /\ Route(cities[cidx], overrides, regions) = "exact"
    /\ matched' = DictSet(matched, cities[cidx],
                          RegionNorm(regions)[normalize_key(cities[cidx])])
    /\ meta' = DictSet(meta, cities[cidx], Meta("normalized_exact", 0, 100))
    /\ steps' = Append(steps, Step(TRUE, 0))
    /\ cidx' = cidx + 1
    /\ UNCHANGED <<cities, regions, overrides, thresholds, unmatched, rpc>>

\* Lines 100-101 and 106-117: a threshold of the ladder is reached.
MatchFuzzy ==
    /\ UNCHANGED notRegions
    /\ rpc = "loop" /\ cidx <= Len(cities)
    /\ Route(cities[cidx], overrides, regions) = "fuzzy"
    /\ LET best == extractOne(normalize_key(cities[cidx]), RegionList(regions))
           used == Ladder(thresholds, best, 0)
       IN  /\ used.threshold # None
           /\ matched' = DictSet(matched, cities[cidx],
                                 RegionNorm(regions)[best[1][1]])
           /\ meta' = DictSet(meta, cities[cidx],
                              Meta("fuzzy", used.threshold[1], IntScore(best[1][2])))
           /\ steps' = Append(steps, Step(TRUE, used.calls))
    /\ cidx' = cidx + 1
    /\ UNCHANGED <<cities, regions, overrides, thresholds, unmatched, rpc>>

\* Lines 100-101, 106-113 and 118-119: no threshold is reached.
NoMatch ==
    /\ UNCHANGED notRegions
    /\ rpc = "loop" /\ cidx <= Len(cities)
    /\ Route(cities[cidx], overrides, regions) = "fuzzy"
    /\ LET best == extractOne(normalize_key(cities[cidx]), RegionList(regions))
           used == Ladder(thresholds, best, 0)
       IN  /\ used.threshold = None
           /\ unmatched' = Append(unmatched, cities[cidx])
           /\ steps' = Append(steps, Step(TRUE, used.calls))
    /\ cidx' = cidx + 1
    /\ UNCHANGED <<cities, regions, overrides, thresholds, matched, meta, rpc>>

\* Line 121.
MatchRegionsReturns ==
    /\ UNCHANGED notRegions
    /\ rpc = "loop" /\ cidx > Len(cities)
    /\ rpc' = "done"
    /\ UNCHANGED <<cities, regions, overrides, thresholds, matched, unmatched,
                   meta, cidx, steps>>

NextRegions ==
    \/ MatchOverride
    \/ MatchExact
    \/ MatchFuzzy
    \/ NoMatch
    \/ MatchRegionsReturns

SpecRegions == InitRegions /\ [][NextRegions]_vars

-----------------------------------------------------------------------------
(***************************************************************************)
(* Claims on match_regions.                                                *)
(***************************************************************************)
\* The cities the loop has processed so far are cities[1..Len(steps)].
ProcessedCities == 1..Len(steps)

\* C7 (as claimed): whatever the configured threshold list, a city accepted
\* by the ladder is reported at the highest configured threshold its best
\* score reaches: no configured threshold above the reported one is reached
\* by the stored score.
C7_StrictestTier ==
    \A c \in DOMAIN meta :
        meta[c].method = "fuzzy" =>
            \A i \in 1..Len(thresholds) :
                thresholds[i] > meta[c].tier => meta[c].score < thresholds[i]

\* C8: a processed city that is a key of the override map is matched to the
\* mapped value with method override and score 100, and neither
\* normalize_key nor extractOne was applied to it.
C8_OverrideFirst ==
    \A j \in ProcessedCities :
        cities[j] \in DOMAIN overrides =>
            /\ cities[j] \in DOMAIN matched
            /\ matched[cities[j]] = overrides[cities[j]]
            /\ meta[cities[j]] = Meta("override", 0, 100)
            /\ steps[j] = Step(FALSE, 0)
            /\ cities[j] \notin Range(unmatched)

\* C8 witness: an override key that the exact-normalized check would have
\* matched too (to another region) has been processed.
C8_Witness ==
    \E j \in ProcessedCities :
        /\ cities[j] \in DOMAIN overrides
        /\ normalize_key(cities[j]) \in DOMAIN RegionNorm(regions)
        /\ RegionNorm(regions)[normalize_key(cities[j])] # overrides[cities[j]]

\* The result match_regions gives for a query that is itself a text of the
\* catalog: score 100 by the exact-normalized step (which the code labels
\* "normalized_exact", line 103), matched to a catalog record of the same
\* normalized text.
ExactNormalizedResult(c) ==
    /\ c \in DOMAIN matched
    /\ meta[c].method = "normalized_exact"
    /\ meta[c].score = 100
    /\ matched[c] \in Range(regions)
    /\ normalize_key(matched[c]) = normalize_key(c)

\* C9 (as claimed): every processed query that is a text of the region
\* catalog has the exact-normalized result.
C9_Original ==
    \A j \in ProcessedCities :
        cities[j] \in Range(regions) => ExactNormalizedResult(cities[j])

\* C9 (amended): every processed query that is a text of the region catalog
\* and is not a key of the override map has the exact-normalized result.
C9_CatalogTextExact ==
    \A j \in ProcessedCities :
        (cities[j] \in Range(regions) /\ cities[j] \notin DOMAIN overrides)
            => ExactNormalizedResult(cities[j])

\* C9 witness: the catalog text "Berlin" was matched to the later catalog
\* record "berlin" of the same normalized text.
C9_Witness ==
    \E j \in ProcessedCities :
        /\ cities[j] = TXT_BERLIN
        /\ TXT_BERLIN \in Range(regions)
        /\ TXT_BERLIN \notin DOMAIN overrides
        /\ matched[TXT_BERLIN] = TXT_BERLIN_LC

-----------------------------------------------------------------------------
(***************************************************************************)
(* fdc_map_eval.py: tokenize, load_local_index, choose_candidates,         *)
(* score_candidates_local.  Record positions are 1-based here (Python's    *)
(* idx + 1).                                                               *)
(***************************************************************************)
\* TOKEN_LIMIT (line 33), MIN_TOKEN_LEN (line 34)
TOKEN_LIMIT == 3
MIN_TOKEN_LEN == 3

\* --max-candidates default (line 580)
DEFAULT_MAX_CANDIDATES == 3000

\* LOCAL_TYPE_MAP (lines 36-41)
LOCAL_TYPE_MAP ==
    [t \in {"Branded", "Foundation", "SR Legacy", "FNDDS"} |->
        CASE t = "Branded"    -> "branded_food"
          [] t = "Foundation" -> "foundation_food"
          [] t = "SR Legacy"  -> "sr_legacy_food"
          [] t = "FNDDS"      -> "survey_fndds_food"]

LocalType(t) == IF t \in DOMAIN LOCAL_TYPE_MAP THEN LOCAL_TYPE_MAP[t] ELSE t

\* map_local_types (lines 200-204)
map_local_types(data_types) ==
    [i \in 1..Len(data_types) |-> LocalType(data_types[i])]

\* main, lines 592-596: the types load_local_index lets in.
LocalAllowedTypes ==
    {LocalType(t) : t \in Range(FALLBACK_TYPES) \cup
        UNION {Range(DEFAULT_KIND_TO_TYPES[k]) : k \in DOMAIN DEFAULT_KIND_TO_TYPES}}

LongEnough(token) == Len(token) >= MIN_TOKEN_LEN

\* A variant of tokenize that keeps the short tokens.
tokenize_NoMinLen(text) == Split(normalize(text))

\* tokenize (lines 83-86)
tokenize(text) == SelectSeq(Split(normalize(text)), LongEnough)

\* s[:n]
Take(s, n) == SubSeq(s, 1, IF n < Len(s) THEN n ELSE Len(s))

\* FdcRecord (lines 65-70), as line 258 builds it.
FdcRecord(row) ==
    [fdc_id |-> row.fdc_id, data_type |-> row.data_type,
     description |-> Strip(row.description),
     description_norm |-> normalize(Strip(row.description))]

\* Lines 250-255: the row is left out of the index.
RowSkipped(row) ==
    row.data_type \notin LocalAllowedTypes \/ Strip(row.description) = <<>>

\* Lines 267-268 for the tokens toks of the record at position pos.
RECURSIVE IndexTokens(_, _, _)
IndexTokens(index, toks, pos) ==
    IF toks = <<>> THEN index
    ELSE LET t   == Head(toks)
             old == IF t \in DOMAIN index THEN index[t] ELSE <<>>
         IN  IndexTokens(DictSet(index, t, Append(old, pos)), Tail(toks), pos)

\* lists.sort(key=lambda x: len(x[1])) (line 278): a stable sort.
RECURSIVE InsertByLen(_, _)
InsertByLen(sorted, l) ==
    IF sorted = <<>> THEN <<l>>
    ELSE IF Len(l) < Len(Head(sorted))
         THEN <<l>> \o sorted
         ELSE <<Head(sorted)>> \o InsertByLen(Tail(sorted), l)

RECURSIVE SortByLen(_, _)
SortByLen(lists, n) ==
    IF n = 0 THEN <<>> ELSE InsertByLen(SortByLen(lists, n - 1), lists[n])

\* A variant of choose_candidates that unions every posting list.
CandidateSet_AllLists(tokens, index) ==
    UNION {Range(index[t]) : t \in Range(tokens) \cap DOMAIN index}

\* choose_candidates (lines 274-282), up to the set it builds.
CandidateSet(tokens, index) ==
    LET present == SelectSeq(tokens, LAMBDA t : t \in DOMAIN index)
        lists   == [i \in 1..Len(present) |-> index[present[i]]]
        sorted  == SortByLen(lists, Len(lists))
    IN  IF lists = <<>> THEN {}
        ELSE Range(sorted[1]) \cup (IF Len(sorted) >= 2 THEN Range(sorted[2]) ELSE {})

\* list(candidates) (line 282): the elements of the set in the iteration
\* order of the interpreter's set.  CPython hashes an int to itself and
\* iterates a set by slot (hash modulo the table size), so the positions of
\* an index smaller than the table (at least 8 slots) come out in
\* ascending order, whatever the order in which they were added.
RECURSIVE ListOf(_)
ListOf(S) ==
    IF S = {} THEN <<>>
    ELSE LET least == CHOOSE x \in S : \A y \in S : x <= y
         IN  <<least>> \o ListOf(S \ {least})

\* Mutant of FilterAndTruncate: the slice keeps one candidate too many.
FilterAndTruncate_OffByOne(cands, recs, data_types, maxCands) ==
    LET kept == IF data_types # <<>>
                THEN SelectSeq(cands, LAMBDA i : recs[i].data_type \in Range(data_types))
                ELSE cands
    IN  IF maxCands # None /\ maxCands[1] # 0 /\ Len(kept) > maxCands[1]
        THEN Take(kept, maxCands[1] + 1)
        ELSE kept

\* A variant of lines 335-340 that truncates first and filters afterwards.
FilterAndTruncate_TruncateFirst(cands, recs, data_types, maxCands) ==
    LET cut == IF maxCands # None /\ maxCands[1] # 0 /\ Len(cands) > maxCands[1]
               THEN Take(cands, maxCands[1])
               ELSE cands
    IN  IF data_types # <<>>
        THEN SelectSeq(cut, LAMBDA i : recs[i].data_type \in Range(data_types))
        ELSE cut

\* Lines 335-340: the data-type filter, then the truncation.
FilterAndTruncate(cands, recs, data_types, maxCands) ==
    LET kept == IF data_types # <<>>
                THEN SelectSeq(cands, LAMBDA i : recs[i].data_type \in Range(data_types))
                ELSE cands
    IN  IF maxCands # None /\ maxCands[1] # 0 /\ Len(kept) > maxCands[1]
        THEN Take(kept, maxCands[1])
        ELSE kept

\* A variant of score_candidates_local in which a later candidate with an
\* equal score replaces the current best.
RECURSIVE BestLocal_LastMax(_, _, _, _)
BestLocal_LastMax(item_name, cands, recs, n) ==
    IF n = 0 THEN <<None, 0>>
    ELSE LET prev  == BestLocal_LastMax(item_name, cands, recs, n - 1)
             score == WRatio(normalize(item_name), recs[cands[n]].description_norm)
         IN  IF score > 0 /\ score >= prev[2] THEN <<Some(cands[n]), score>>
             ELSE prev

\* score_candidates_local (lines 285-299) over cands[1..n]: <<best, score>>,
\* best being None or <<record position>>.
RECURSIVE BestLocal(_, _, _, _)
BestLocal(item_name, cands, recs, n) ==
    IF n = 0 THEN <<None, 0>>
    ELSE LET prev  == BestLocal(item_name, cands, recs, n - 1)
             score == WRatio(normalize(item_name), recs[cands[n]].description_norm)
         IN  IF score > prev[2] THEN <<Some(cands[n]), score>> ELSE prev

\* Line 347: the best record is accepted.
LocalAccepts(item, cands, recs, minScore) ==
    LET best == BestLocal(item.item_name, cands, recs, Len(cands))
    IN  best[1] # None /\ best[2] >= minScore

\* Mutant of LocalResult: the acceptance test leaves out "best and".
LocalResult_NoBestGuard(item, cands, recs, minScore) ==
    LET best == BestLocal(item.item_name, cands, recs, Len(cands))
    IN  [item_name  |-> item.item_name,
         food_kind  |-> item.food_kind,
         fdc_id     |-> IF best[2] >= minScore
                        THEN Some(IF best[1] # None
                                  THEN recs[best[1][1]].fdc_id ELSE 0)
                        ELSE None,
         score      |-> Round2(best[2]),
         candidates |-> Len(cands)]

\* Lines 341-379.
LocalResult(item, cands, recs, minScore) ==
    LET best == BestLocal(item.item_name, cands, recs, Len(cands))
    IN  [item_name  |-> item.item_name,
         food_kind  |-> item.food_kind,
         fdc_id     |-> IF best[1] # None /\ best[2] >= minScore
                        THEN Some(recs[best[1][1]].fdc_id) ELSE None,
         score      |-> Round2(best[2]),
         candidates |-> Len(cands)]

-----------------------------------------------------------------------------
(***************************************************************************)
(* load_local_index, then evaluate with the index.                         *)
(***************************************************************************)
MaxLocalItems == 2

TXT_7UP == <<"7"," ","U","p">>

ROW_TEA     == [fdc_id |-> 1, data_type |-> "branded_food",    description |-> TXT_TEA]
ROW_TEA_BAG == [fdc_id |-> 2, data_type |-> "foundation_food", description |-> TXT_TEA_BAG]
ROW_7UP     == [fdc_id |-> 3, data_type |-> "branded_food",    description |-> TXT_7UP]
ROW_BLANK   == [fdc_id |-> 4, data_type |-> "branded_food",    description |-> <<" ">>]
ROW_SAMPLE  == [fdc_id |-> 5, data_type |-> "sample_food",     description |-> TXT_TEA]

\* The food.csv files of the runs.
CatalogPool == { <<>>,
                 <<ROW_TEA, ROW_TEA_BAG>>,
                 <<ROW_TEA_BAG, ROW_7UP, ROW_TEA>>,
                 <<ROW_SAMPLE, ROW_BLANK, ROW_TEA_BAG>> }

ITEM_TEA_BAG ==
    [item_name |-> TXT_TEA_BAG, merchant_name |-> <<>>,
     food_kind |-> Some("grocery_raw")]
ITEM_TEA_PACKAGED ==
    [item_name |-> TXT_TEA, merchant_name |-> <<>>,
     food_kind |-> Some("grocery_packaged")]
ITEM_7UP == [item_name |-> TXT_7UP, merchant_name |-> <<>>, food_kind |-> None]

ITEM_TEA_BAG_ANY ==
    [item_name |-> TXT_TEA_BAG, merchant_name |-> <<>>, food_kind |-> None]

LocalItemPool == {ITEM_TEA, ITEM_TEA_BAG, ITEM_TEA_BAG_ANY, ITEM_TEA_PACKAGED,
                  ITEM_7UP}

MaxCandidatesPool == {None, Some(0), Some(1), Some(DEFAULT_MAX_CANDIDATES)}

InitLocal ==
    /\ CoreIdle
    /\ SummaryInit
    /\ RegistryIdle
    /\ RemoteIdle
    /\ RegionsIdle
    /\ NormIdle
    /\ min_score \in MinScorePool
    /\ include_merchant = FALSE
    /\ catalog \in CatalogPool
    /\ records = <<>>
    /\ token_index = <<>>
    /\ max_candidates \in MaxCandidatesPool
    /\ litems \in SeqsOf(LocalItemPool, 0, MaxLocalItems)
    /\ lpc = "index"
    /\ ridx = 1
    /\ lidx = 1
    /\ lresults = <<>>
    /\ scored = <<>>

\* load_local_index, lines 249-255: a row that is left out.
IndexRowSkipped ==
    /\ UNCHANGED notLocal
    /\ UNCHANGED sumVars
    /\ lpc = "index" /\ ridx <= Len(catalog)
    /\ RowSkipped(catalog[ridx])
    /\ ridx' = ridx + 1
    /\ UNCHANGED <<catalog, records, token_index, max_candidates, litems, lpc,
                   lidx, lresults, scored>>

\* load_local_index, lines 249-268: a row that becomes a record.
IndexRowAdded ==
    /\ UNCHANGED notLocal
    /\ UNCHANGED sumVars
    /\ lpc = "index" /\ ridx <= Len(catalog)
    /\ ~RowSkipped(catalog[ridx])
    /\ records' = Append(records, FdcRecord(catalog[ridx]))
    /\ token_index' =
          IndexTokens(token_index,
                      Take(tokenize(Strip(catalog[ridx].description)), TOKEN_LIMIT),
                      Len(records) + 1)
    /\ ridx' = ridx + 1
    /\ UNCHANGED <<catalog, max_candidates, litems, lpc, lidx, lresults, scored>>

\* load_local_index returns (line 271); main calls evaluate (line 606).
IndexBuilt ==
    /\ UNCHANGED <<evalArgs, regionVars, normVars, registryVars, coreVars>>
    /\ UNCHANGED sumVars
    /\ lpc = "index" /\ ridx > Len(catalog)
    /\ lpc' = "eval"
    /\ cache' = evaluate_cache(TRUE, store)             \* line 318
    /\ request_count' = 0                               \* line 320
    /\ UNCHANGED <<items, retries, max_requests, store, store0, pc, idx,
                   attempt, results, how, scored_foods, net_calls, responses,
                   outcome>>
    /\ UNCHANGED <<catalog, records, token_index, max_candidates, litems, ridx,
                   lidx, lresults, scored>>

\* evaluate, lines 326-380: one item against the index.
LocalItem ==
    /\ UNCHANGED notLocal
    /\ lpc = "eval" /\ lidx <= Len(litems)
    /\ LET item       == litems[lidx]
           data_types == map_local_types(pick_data_types(item.food_kind, FALLBACK_TYPES))
           candset    == CandidateSet(tokenize(item.item_name), token_index)
           cands      == FilterAndTruncate(ListOf(candset), records, data_types,
                                           max_candidates)
       IN  /\ lresults' = Append(lresults,
                  LocalResult(item, cands, records, min_score))
           /\ per_kind' = Bump(per_kind, KindKey(item))
           /\ matched_kind' =
                 IF LocalAccepts(item, cands, records, min_score)
                 THEN Bump(matched_kind, KindKey(item))
                 ELSE matched_kind
           /\ UNCHANGED summary
           /\ scored' = Append(scored, cands)
    /\ lidx' = lidx + 1
    /\ UNCHANGED <<catalog, records, token_index, max_candidates, litems, lpc,
                   ridx>>

\* evaluate returns (line 484).
LocalDone ==
    /\ UNCHANGED notLocal
    /\ summary' = Some(Summary(litems, lresults, per_kind, matched_kind))
    /\ UNCHANGED <<per_kind, matched_kind>>
    /\ lpc = "eval" /\ lidx > Len(litems)
    /\ lpc' = "done"
    /\ UNCHANGED <<catalog, records, token_index, max_candidates, litems, ridx,
                   lidx, lresults, scored>>

NextLocal ==
    \/ IndexRowSkipped
    \/ IndexRowAdded
    \/ IndexBuilt
    \/ LocalItem
    \/ LocalDone

SpecLocal == InitLocal /\ [][NextLocal]_vars

-----------------------------------------------------------------------------
(***************************************************************************)
(* Claims on the local catalog matcher.                                    *)
(***************************************************************************)
\* C10 (as claimed): an item whose name is the description of an indexed
\* record r, and whose data types (mapped to the local names) include r's
\* data type, is matched with score 100.
C10_IndexedTextScores100 ==
    \A j \in 1..Len(lresults) :
        \A r \in 1..Len(records) :
            (/\ litems[j].item_name = records[r].description
             /\ records[r].data_type \in
                    Range(map_local_types(
                        pick_data_types(litems[j].food_kind, FALLBACK_TYPES))))
                => (lresults[j].fdc_id # None
                    /\ lresults[j].score = Round2(100 * SCORE_UNIT))

-----------------------------------------------------------------------------
(***************************************************************************)
(* The three matchers side by side: a behaviour is one call of             *)
(* match_regions, one remote-mode run of evaluate or one local-mode run.   *)
(***************************************************************************)
InitAll == InitRemote \/ InitRegions \/ InitLocal

NextAll == NextRemote \/ NextRegions \/ NextLocal

SpecAll == InitAll /\ [][NextAll]_vars

\* The score of a result (hundredths of a point) in thousandths.
StoredScore(result) == result.score * 10

\* C11 (as claimed): the score stored with an accepted match is at least the
\* threshold that accepted it: meta's score is >= t for method fuzzy_<t>, and
\* the score of a result with a matched id is >= min_score, in both modes
\* of evaluate.
C11_StoredScoreClearsThreshold ==
    /\ \A c \in DOMAIN meta :
          meta[c].method = "fuzzy" => meta[c].score >= meta[c].tier
    /\ \A j \in 1..Len(results) :
          results[j].fdc_id # None => StoredScore(results[j]) >= min_score
    /\ \A j \in 1..Len(lresults) :
          lresults[j].fdc_id # None => StoredScore(lresults[j]) >= min_score

\* C11 (amended): meta's score is >= t for method fuzzy_<t>; the score of a
\* result with a matched id is the accepted score rounded to two decimals,
\* and is at least min_score rounded to two decimals (so at least min_score
\* when min_score has no more than two decimals).
C11_RoundedScoreClearsThreshold ==
    /\ \A c \in DOMAIN meta :
          meta[c].method = "fuzzy" => meta[c].score >= meta[c].tier
    /\ \A j \in 1..Len(results) :
          results[j].fdc_id # None => results[j].score >= Round2(min_score)
    /\ \A j \in 1..Len(lresults) :
          lresults[j].fdc_id # None => lresults[j].score >= Round2(min_score)

\* C11 witness: with --min-score 85.712 the item "Tea" was matched to the
\* food "Teas" (score 600/7 = 85.714...), stored as 85.71.
C11_Witness ==
    /\ min_score = 85712
    /\ \E j \in 1..Len(results) :
          /\ results[j].fdc_id = Some(FOOD_TEAS.fdcId)
          /\ results[j].score = 8571

\* The highest score among the candidates scored for a result (0 for none),
\* in thousandths.
MaxOf(scores) == IF scores = {} THEN 0 ELSE CHOOSE x \in scores : \A y \in scores : y <= x

BestScoreRemote(j) ==
    MaxOf({CandScore(items[j], scored_foods[j][n], include_merchant) :
               n \in 1..Len(scored_foods[j])})

BestScoreLocal(j) ==
    MaxOf({WRatio(normalize(litems[j].item_name), records[scored[j][n]].description_norm) :
               n \in 1..Len(scored[j])})

\* C12 (as claimed): a result has a matched id exactly when candidates were
\* scored for it and the best of their scores is >= min_score, for every
\* min_score, 0 included; in both modes of evaluate.
C12_MatchedIffBestClears ==
    /\ \A j \in 1..Len(results) :
          (results[j].fdc_id # None)
              <=> (scored_foods[j] # <<>> /\ BestScoreRemote(j) >= min_score)
    /\ \A j \in 1..Len(lresults) :
          (lresults[j].fdc_id # None)
              <=> (scored[j] # <<>> /\ BestScoreLocal(j) >= min_score)

\* An unmatched result of evaluate with no score and no candidates.
EmptyOutcome(result) ==
    result.fdc_id = None /\ result.score = 0 /\ result.candidates = 0

-----------------------------------------------------------------------------
(***************************************************************************)
(* Claims on the truncation of the candidates in local mode.               *)
(***************************************************************************)
\* The candidates of item j after the data-type filter (lines 333-338), in
\* the order choose_candidates returned them, before any truncation.
Filtered(j) ==
    FilterAndTruncate(
        ListOf(CandidateSet(tokenize(litems[j].item_name), token_index)),
        records,
        map_local_types(pick_data_types(litems[j].food_kind, FALLBACK_TYPES)),
        None)

\* The truncation rule claimed for max_candidates = n on result j.
BoundedBy(n, j) ==
    /\ lresults[j].candidates <= n
    /\ Len(Filtered(j)) > n => lresults[j].candidates = n

\* C14 (as claimed): with max_candidates = N configured, every result's
\* candidate count is at most N, and exactly N when the filtered candidate
\* set has more than N members.
C14_AtMostN ==
    max_candidates # None =>
        \A j \in 1..Len(lresults) : BoundedBy(max_candidates[1], j)

\* C14 (amended): the same for N >= 1; with N = 0 (or no N) nothing is
\* truncated and the candidate count is the size of the filtered set.
C14_AtMostPositiveN ==
    \A j \in 1..Len(lresults) :
        IF max_candidates # None /\ max_candidates[1] >= 1
        THEN BoundedBy(max_candidates[1], j)
        ELSE lresults[j].candidates = Len(Filtered(j))

\* C14 witness: two candidates passed the filter and N = 1 kept one.
C14_Witness ==
    /\ max_candidates = Some(1)
    /\ \E j \in 1..Len(lresults) :
          Len(Filtered(j)) = 2 /\ lresults[j].candidates = 1

\* The positions of a posting list that are not in a list already.
RECURSIVE AppendNew(_, _)
AppendNew(order, idxs) ==
    IF idxs = <<>> THEN order
    ELSE AppendNew(IF Head(idxs) \in Range(order) THEN order
                   ELSE Append(order, Head(idxs)),
                   Tail(idxs))

\* The candidates in the order in which choose_candidates adds them to its
\* set (lines 279-281): the shortest posting list, then the second one.
InsertionOrder(tokens, index) ==
    LET present == SelectSeq(tokens, LAMBDA t : t \in DOMAIN index)
        lists   == [i \in 1..Len(present) |-> index[present[i]]]
        sorted  == SortByLen(lists, Len(lists))
    IN  IF lists = <<>> THEN <<>>
        ELSE AppendNew(AppendNew(<<>>, sorted[1]),
                       IF Len(sorted) >= 2 THEN sorted[2] ELSE <<>>)

\* C15 (as claimed): when more candidates pass the filter than
\* max_candidates = N allows, the candidates scored are the first N in
\* insertion order.
C15_FirstNInInsertionOrder ==
    \A j \in 1..Len(lresults) :
        (/\ max_candidates # None
         /\ max_candidates[1] >= 1
         /\ Len(Filtered(j)) > max_candidates[1])
            => scored[j] =
                  FilterAndTruncate(
                      InsertionOrder(tokenize(litems[j].item_name), token_index),
                      records,
                      map_local_types(
                          pick_data_types(litems[j].food_kind, FALLBACK_TYPES)),
                      max_candidates)

-----------------------------------------------------------------------------
(***************************************************************************)
(* The normalizers on their own: each is applied to a text and then to its *)
(* own output.                                                             *)
(***************************************************************************)
MaxTextLen == 5

\* An upper-case letter, lower-case letters, whitespace and punctuation;
\* the letters spell a stop word of osm_region_ingest.
TextChars == {"C", "i", "t", "y", " ", "-"}

\* The argument of the next call in a chain: the text, then the last output.
Feed(outs) == IF outs = <<>> THEN ntext ELSE outs[Len(outs)]

InitNorm ==
    /\ CoreIdle
    /\ SummaryInit
    /\ RegistryIdle
    /\ EvaluateIdle
    /\ RemoteIdle
    /\ RegionsIdle
    /\ LocalIdle
    /\ ntext \in SeqsOf(TextChars, 0, MaxTextLen)
    /\ nout = <<>>
    /\ fout = <<>>
    /\ kout = <<>>
    /\ npc = "normalize"

\* fdc_map_eval.normalize (lines 73-75), called on the text and again on
\* what it returned.
CallNormalize ==
    /\ UNCHANGED notNorm
    /\ npc = "normalize"
    /\ nout' = Append(nout, normalize(Feed(nout)))
    /\ npc' = IF Len(nout) = 1 THEN "fdc_key" ELSE npc
    /\ UNCHANGED <<ntext, fout, kout>>

\* fdc_map_eval.normalize_key (lines 78-80), likewise.
CallNormalizeKeyFdc ==
    /\ UNCHANGED notNorm
    /\ npc = "fdc_key"
    /\ fout' = Append(fout, normalize_key_fdc(Feed(fout)))
    /\ npc' = IF Len(fout) = 1 THEN "key" ELSE npc
    /\ UNCHANGED <<ntext, nout, kout>>

\* osm_region_ingest.normalize_key (lines 46-49), likewise.
CallNormalizeKey ==
    /\ UNCHANGED notNorm
    /\ npc = "key"
    /\ kout' = Append(kout, normalize_key(Feed(kout)))
    /\ npc' = IF Len(kout) = 1 THEN "done" ELSE npc
    /\ UNCHANGED <<ntext, nout, fout>>

NextNorm ==
    \/ CallNormalize
    \/ CallNormalizeKeyFdc
    \/ CallNormalizeKey

SpecNorm == InitNorm /\ [][NextNorm]_vars

\* C16: the base normalizer is idempotent: a second application returns
\* what the first returned (normalize and fdc_map_eval's normalize_key).
C16_NormalizeIdempotent ==
    /\ Len(nout) = 2 => nout[2] = nout[1]
    /\ Len(fout) = 2 => fout[2] = fout[1]

\* C16 witness: a text with upper case, punctuation and runs of blanks that
\* the first application changed.
C16_Witness ==
    /\ ntext = <<" ", "C", "-", " ", "y">>
    /\ nout = << <<"c", " ", "y">>, <<"c", " ", "y">> >>

\* C17 (as claimed): the stop-word-removing normalizer is idempotent.
C17_NormalizeKeyIdempotent ==
    Len(kout) = 2 => kout[2] = kout[1]

-----------------------------------------------------------------------------
(***************************************************************************)
(* Claims on the cache file and on the summary of a run.                   *)
(***************************************************************************)
\* C18: whenever the run appends to the cache file (append_cache with the
\* item's key and the fetched foods), load_cache of the file maps that key
\* to exactly those foods, has no other new key, and maps every other key
\* to what it mapped it to before the append.
C18_CacheRoundTrip ==
    [][store' # store =>
          LET key    == CacheKey(items[idx])
              before == load_cache(store)
              after  == load_cache(store')
          IN  /\ DOMAIN after = DOMAIN before \cup {key}
              /\ after[key] = outcome'.resp.foods
              /\ \A k \in DOMAIN before \ {key} : after[k] = before[k]]_vars

\* C18 witness: the file holds two lines of one key with different foods,
\* and load_cache gives the foods written last.
C18_Witness ==
    \E i, j \in 1..Len(store) :
        /\ i < j /\ j = Len(store) /\ j > Len(store0)
        /\ store[i].key = store[j].key
        /\ store[i].foods # store[j].foods
        /\ load_cache(store)[store[j].key] = store[j].foods

RECURSIVE SumDict(_)
SumDict(d) ==
    IF DOMAIN d = {} THEN 0
    ELSE LET k == CHOOSE x \in DOMAIN d : TRUE
         IN  d[k] + SumDict([x \in DOMAIN d \ {k} |-> d[x]])

\* What C19 says of a completed run over the items its with the results res.
SummaryAgrees(its, res) ==
    /\ Len(res) = Len(its)
    /\ \A j \in 1..Len(its) :
          res[j].item_name = its[j].item_name /\ res[j].food_kind = its[j].food_kind
    /\ summary # None
    /\ summary[1].total_items = Len(res)
    /\ summary[1].matched_items = MatchedCount(res)
    /\ summary[1].matched_items = SumDict(summary[1].matched_per_kind)
    /\ SumDict(summary[1].per_kind) = summary[1].total_items

-----------------------------------------------------------------------------
(***************************************************************************)
(* bitegraph/core/registry.py: AdapterRegistry.register and get.  An       *)
(* adapter is its identity (name) and the value its source_id() returns.   *)
(***************************************************************************)
MaxRegisterCalls == 3

AdapterPool ==
    { [name |-> "uber_a",   source |-> "uber_eats"],
      [name |-> "uber_b",   source |-> "uber_eats"],
      [name |-> "doordash", source |-> "doordash"] }

SourceIds == {"uber_eats", "doordash", "csv_import"}

\* Mutant of register: a registered source_id is overwritten, nothing is
\* raised.
register_Overwrites(reg, adapter) ==
    [raised |-> FALSE, adapters |-> DictSet(reg, adapter.source, adapter)]

\* AdapterRegistry.register (lines 27-30) on the dict reg: whether
\* ValueError is raised, and the dict afterwards.
register(reg, adapter) ==
    IF adapter.source \in DOMAIN reg
    THEN [raised |-> TRUE,  adapters |-> reg]
    ELSE [raised |-> FALSE, adapters |-> DictSet(reg, adapter.source, adapter)]

\* AdapterRegistry.get (line 42): self._adapters.get(source_id)
get(reg, source_id) ==
    IF source_id \in DOMAIN reg THEN Some(reg[source_id]) ELSE None

InitRegistry ==
    /\ CoreIdle
    /\ SummaryInit
    /\ EvaluateIdle
    /\ RemoteIdle
    /\ RegionsIdle
    /\ LocalIdle
    /\ NormIdle
    /\ adapters = <<>>          \* __init__, line 15
    /\ reg_calls = <<>>
    /\ got = <<>>
    /\ regpc = "open"

\* register(adapter) returns: the adapter is stored (line 30).
RegisterAdds(adapter) ==
    /\ UNCHANGED notRegistry
    /\ regpc = "open" /\ Len(reg_calls) < MaxRegisterCalls
    /\ ~register(adapters, adapter).raised
    /\ adapters' = register(adapters, adapter).adapters
    /\ reg_calls' = Append(reg_calls, [adapter |-> adapter, raised |-> FALSE])
    /\ UNCHANGED <<got, regpc>>

\* register(adapter) raises ValueError (line 29).
RegisterRaises(adapter) ==
    /\ UNCHANGED notRegistry
    /\ regpc = "open" /\ Len(reg_calls) < MaxRegisterCalls
    /\ register(adapters, adapter).raised
    /\ adapters' = register(adapters, adapter).adapters
    /\ reg_calls' = Append(reg_calls, [adapter |-> adapter, raised |-> TRUE])
    /\ UNCHANGED <<got, regpc>>

\* get(source_id) (line 42); `after` is the number of register calls made
\* before it.
Get(source_id) ==
    /\ UNCHANGED notRegistry
    /\ regpc = "open"
    /\ got' = Some([source_id |-> source_id,
                    result    |-> get(adapters, source_id),
                    after     |-> Len(reg_calls)])
    /\ UNCHANGED <<adapters, reg_calls, regpc>>

NextRegistry ==
    \/ \E a \in AdapterPool : RegisterAdds(a)
    \/ \E a \in AdapterPool : RegisterRaises(a)
    \/ \E sid \in SourceIds : Get(sid)

SpecRegistry == InitRegistry /\ [][NextRegistry]_vars

\* The calls among the first n register calls made for source_id.
CallsFor(source_id, n) ==
    {i \in 1..n : reg_calls[i].adapter.source = source_id}

\* The adapter of the first of them.
FirstFor(source_id, n) ==
    reg_calls[CHOOSE i \in CallsFor(source_id, n) :
                  \A j \in CallsFor(source_id, n) : i <= j].adapter

\* C20: register raises exactly when the source_id was registered before,
\* and then leaves the registry as it was: at all times the registry maps
\* every source_id registered so far to the first adapter registered under
\* it and holds no other key; get returned that adapter, or None for a
\* source_id not registered by then.
C20_FirstRegistrationWins ==
    /\ \A i \in 1..Len(reg_calls) :
          reg_calls[i].raised
              <=> CallsFor(reg_calls[i].adapter.source, i - 1) # {}
    /\ DOMAIN adapters =
          {reg_calls[i].adapter.source : i \in 1..Len(reg_calls)}
    /\ \A sid \in DOMAIN adapters :
          adapters[sid] = FirstFor(sid, Len(reg_calls))
    /\ got # None =>
          got[1].result =
              IF CallsFor(got[1].source_id, got[1].after) = {} THEN None
              ELSE Some(FirstFor(got[1].source_id, got[1].after))

\* C20 witness: a second adapter of a registered source_id was refused and
\* get returned the first one afterwards.
C20_Witness ==
    /\ Len(reg_calls) >= 2
    /\ reg_calls[1].adapter.name = "uber_a" /\ ~reg_calls[1].raised
    /\ reg_calls[2].adapter.name = "uber_b" /\ reg_calls[2].raised
    /\ got # None
    /\ got[1].after >= 2
    /\ got[1].result = Some(reg_calls[1].adapter)

-----------------------------------------------------------------------------
(***************************************************************************)
(* bitegraph/core/pipeline.py: PipelineRunner.run.  The stages are         *)
(* injected; a stage that is supplied answers with one of the results its  *)
(* protocol allows, or with None.  Confidences are in hundredths.          *)
(***************************************************************************)
MaxRawItems == 2

\* The stage attributes set by __init__ (lines 56-61): TRUE for a stage
\* that was supplied, FALSE for None.
StageNames == {"normalizer", "classifier", "mapper", "enricher",
               "inference_engine"}
StageConfigs == [StageNames -> BOOLEAN]

\* PurchaseLineItem: the event id and the raw item name; `clean` tells
\* whether a normalizer has returned the item.
RawItemPool == {[event_id |-> e, clean |-> FALSE] : e \in {"e1", "e2"}}

\* Normalizer.normalize (interfaces.py 65): a cleaned copy of the item.
NormalizerReturns(item) == [item EXCEPT !.clean = TRUE]

\* What Classifier.classify may answer for an item (interfaces.py 82).
ClassifierReturns(item) ==
    {None} \cup
    {Some([event_id |-> item.event_id, vertical |-> v[1], food_kind |-> v[2],
           confidence |-> v[3]]) :
        v \in {<<"food", Some("prepared_meal"), 80>>,
               <<"non_food", None, 90>>}}

\* What IngredientMapper.map may answer (interfaces.py 99).
MapperReturns(item) ==
    {None,
     Some([event_id |-> item.event_id, canonical_food_id |-> Some("pizza"),
           ingredient_profile_id |-> Some("pizza_v1"), confidence |-> 60,
           provenance |-> "template_v1"])}

\* What the enricher may answer.
EnricherReturns(item) ==
    {None, Some([event_id |-> item.event_id,
                 ingredient_profile_id |-> "pizza_v1"])}

\* What ConsumptionInferenceEngine.infer may answer (interfaces.py 117).
InferenceReturns(item) ==
    {None, Some([event_id |-> item.event_id, consumed_probability |-> 95])}

\* confidence.combine_confidences with method "average" (lines 15-19).
combine_confidences(scores) ==
    IF scores = <<>> THEN 0
    ELSE LET sum[i \in 0..Len(scores)] ==
                 IF i = 0 THEN 0 ELSE sum[i - 1] + scores[i]
         IN  sum[Len(scores)] \div Len(scores)

\* A variant of _build_interpretation that gives None as soon as one of
\* the two results is missing.
build_interpretation_Either(item, classification, mapping) ==
    IF classification = None \/ mapping = None THEN None
    ELSE Some([event_id |-> item.event_id,
               vertical |-> classification[1].vertical,
               food_kind |-> classification[1].food_kind,
               canonical_food_id |-> mapping[1].canonical_food_id,
               ingredient_profile_id |-> mapping[1].ingredient_profile_id,
               confidence |-> combine_confidences(
                   <<classification[1].confidence, mapping[1].confidence>>),
               provenance |-> mapping[1].provenance,
               version |-> 1])

\* PipelineRunner._build_interpretation (lines 110-143).
build_interpretation(item, classification, mapping) ==
    IF classification = None /\ mapping = None THEN None       \* 116-117
    ELSE Some([event_id |-> item.event_id,
               vertical |-> IF classification # None
                            THEN classification[1].vertical ELSE "unknown",
               food_kind |-> IF classification # None
                             THEN classification[1].food_kind ELSE None,
               canonical_food_id |-> IF mapping # None
                                     THEN mapping[1].canonical_food_id
                                     ELSE None,
               ingredient_profile_id |-> IF mapping # None
                                         THEN mapping[1].ingredient_profile_id
                                         ELSE None,
               confidence |-> combine_confidences(
                   (IF classification # None
                    THEN <<classification[1].confidence>> ELSE <<>>)
                   \o (IF mapping # None
                       THEN <<mapping[1].confidence>> ELSE <<>>)),
               provenance |-> IF mapping # None THEN mapping[1].provenance
                              ELSE "rules_v1",
               version |-> 1])

\* One iteration of the loop of run (lines 67-95); c, m, e and f are what
\* the classifier, the mapper, the enricher and the inference engine answer
\* if they are called.
PipelineResult(item, c, m, e, f) ==
    LET normalized == IF stages["normalizer"] THEN NormalizerReturns(item)
                      ELSE item
        classification == IF stages["classifier"] THEN c ELSE None
        mapping == IF stages["mapper"] /\ classification # None THEN m
                   ELSE None
        enrichment ==
            IF stages["enricher"] /\ classification # None /\ mapping # None
            THEN e ELSE None
        consumption ==
            IF stages["inference_engine"] /\ classification # None
               /\ mapping # None
            THEN f ELSE None
    IN  [item           |-> normalized,
         interpretation |->
             build_interpretation(normalized, classification, mapping),
         classification |-> classification,
         mapping        |-> mapping,
         enrichment     |-> enrichment,
         consumption    |-> consumption]

InitPipeline ==
    /\ SummaryInit
    /\ EvaluateIdle
    /\ RemoteIdle
    /\ RegionsIdle
    /\ LocalIdle
    /\ NormIdle
    /\ RegistryIdle
    /\ ClassifierIdle
    /\ LimitIdle
    /\ MapperIdle
    /\ stages \in StageConfigs
    /\ raw_items \in SeqsOf(RawItemPool, 0, MaxRawItems)
    /\ presults = <<>>                                          \* line 65
    /\ ppc = "loop"

\* The loop body for the next item (lines 66-95).
RunItem ==
    /\ UNCHANGED notCore
    /\ ppc = "loop" /\ Len(presults) < Len(raw_items)
    /\ LET item == raw_items[Len(presults) + 1]
       IN  \E c \in ClassifierReturns(item), m \in MapperReturns(item),
              e \in EnricherReturns(item), f \in InferenceReturns(item) :
               presults' = Append(presults, PipelineResult(item, c, m, e, f))
    /\ UNCHANGED <<stages, raw_items, ppc>>
    /\ UNCHANGED notPipeline

\* The loop is over: run returns results (line 96).
RunReturns ==
    /\ UNCHANGED notCore
    /\ ppc = "loop" /\ Len(presults) = Len(raw_items)
    /\ ppc' = "done"
    /\ UNCHANGED <<stages, raw_items, presults>>
    /\ UNCHANGED notPipeline

NextPipeline == RunItem \/ RunReturns

SpecPipeline == InitPipeline /\ [][NextPipeline]_vars

\* C21: run gives one PipelineResult per input item, in input order (the
\* k-th result carries the k-th item, as the normalizer returned it, and
\* the returned list is as long as the input); in each result mapping is
\* present only if classification is, enrichment and consumption only if
\* classification and mapping both are, and interpretation is None exactly
\* when classification and mapping are both None.
C21_OneResultPerItem ==
    /\ Len(presults) <= Len(raw_items)
    /\ ppc = "done" => Len(presults) = Len(raw_items)
    /\ \A k \in 1..Len(presults) :
          LET r == presults[k]
          IN  /\ r.item.event_id = raw_items[k].event_id
              /\ r.item = IF stages["normalizer"]
                          THEN NormalizerReturns(raw_items[k])
                          ELSE raw_items[k]
              /\ r.mapping # None => r.classification # None
              /\ r.enrichment # None =>
                    r.classification # None /\ r.mapping # None
              /\ r.consumption # None =>
                    r.classification # None /\ r.mapping # None
              /\ r.interpretation = None
                    <=> (r.classification = None /\ r.mapping = None)

\* C21 witness: run returned two results for two different items; the
\* first has every stage's result, the second has a classification and an
\* interpretation but no mapping.
C21_Witness ==
    /\ ppc = "done" /\ Len(presults) = 2
    /\ raw_items[1].event_id = "e2" /\ raw_items[2].event_id = "e1"
    /\ presults[1].classification # None /\ presults[1].mapping # None
    /\ presults[1].enrichment # None /\ presults[1].consumption # None
    /\ presults[1].interpretation # None
    /\ presults[2].classification # None /\ presults[2].mapping = None
    /\ presults[2].interpretation # None
    /\ presults[2].consumption = None

-----------------------------------------------------------------------------
(***************************************************************************)
(* bitegraph/core/classify_rules.py: RuleBasedClassifier.classify.  The    *)
(* keyword lists and merchant rules come from template files and are       *)
(* inputs here.  Confidences are in hundredths.                            *)
(***************************************************************************)
\* BEVERAGE_KEYWORDS (lines 30-45)
BEVERAGE_KEYWORDS ==
    {<<"c","o","f","f","e","e">>,
     <<"l","a","t","t","e">>,
     <<"e","s","p","r","e","s","s","o">>,
     <<"c","a","p","p","u","c","c","i","n","o">>,
     <<"t","e","a">>,
     <<"s","o","d","a">>,
     <<"c","o","l","a">>,
     <<"s","m","o","o","t","h","i","e">>,
     <<"j","u","i","c","e">>,
     <<"m","i","l","k","s","h","a","k","e">>,
     <<"s","h","a","k","e">>,
     <<"f","r","a","p","p">>,
     <<"l","e","m","o","n","a","d","e">>,
     <<"w","a","t","e","r">>}

\* _normalize_text (lines 48-49): " ".join(value.lower().strip().split())
RECURSIVE JoinWords(_)
JoinWords(words) ==
    IF words = <<>> THEN <<>>
    ELSE IF Len(words) = 1 THEN Head(words)
    ELSE Head(words) \o <<" ">> \o JoinWords(Tail(words))

normalize_text(value) == JoinWords(Split(Strip(Lowered(value))))

\* The values of FoodKind (models.py 17-23).
FOOD_KINDS == <<<<"p","r","e","p","a","r","e","d","_","m","e","a","l">>, <<"g","r","o","c","e","r","y","_","p","a","c","k","a","g","e","d">>,
                <<"g","r","o","c","e","r","y","_","r","a","w">>, <<"b","e","v","e","r","a","g","e">>>>

\* _category_to_food_kind (lines 259-269)
category_to_food_kind(category) ==
    IF category = None \/ category[1] = <<>> THEN None
    ELSE LET c == Strip(Lowered(category[1]))
         IN  IF c \in {<<"b","e","v","e","r","a","g","e">>, <<"c","o","f","f","e","e">>, <<"t","e","a">>}
             THEN Some(<<"b","e","v","e","r","a","g","e">>)
             ELSE IF c \in {<<"g","r","o","c","e","r","y">>, <<"m","a","r","k","e","t">>}
             THEN Some(<<"g","r","o","c","e","r","y","_","p","a","c","k","a","g","e","d">>)
             ELSE IF c \in {<<"f","a","s","t","_","f","o","o","d">>, <<"f","a","s","t","_","c","a","s","u","a","l">>,
                            <<"r","e","s","t","a","u","r","a","n","t">>}
             THEN Some(<<"p","r","e","p","a","r","e","d","_","m","e","a","l">>)
             ELSE None

\* _parse_food_kind (lines 271-276)
parse_food_kind(value) ==
    LET v == Strip(Lowered(value))
    IN  IF \E i \in 1..Len(FOOD_KINDS) : FOOD_KINDS[i] = v THEN Some(v)
        ELSE None

\* _match_merchant (lines 249-257): the first rule, in list order, one of
\* whose patterns is contained in the normalized merchant name.
RuleMatches(rule, merchant_norm) ==
    \E p \in 1..Len(rule.raw_patterns) :
        Contains(merchant_norm, normalize_text(rule.raw_patterns[p]))

match_merchant(rules, merchant_name) ==
    IF merchant_name = <<>> THEN None
    ELSE LET merchant_norm == normalize_text(merchant_name)
             hits == {i \in 1..Len(rules) : RuleMatches(rules[i], merchant_norm)}
         IN  IF hits = {} THEN None
             ELSE Some(rules[CHOOSE i \in hits : \A j \in hits : i <= j])

\* ClassificationResult (models.py 160-168)
ClassificationResult(item, vertical, food_kind, confidence, reason) ==
    [event_id |-> item.event_id, vertical |-> vertical,
     food_kind |-> food_kind, confidence |-> confidence,
     reasons |-> <<reason>>]

\* The merchant branch of classify (lines 185-228): the result it returns,
\* or None when classify goes on to the next rule.
MerchantOutcome(cfg, item) ==
    LET merchant_rule == match_merchant(cfg.merchant_rules, item.merchant_name)
    IN  IF merchant_rule = None THEN None
        ELSE LET rule == merchant_rule[1]
                 forced == IF rule.force_vertical = None THEN <<>>
                           ELSE Lowered(rule.force_vertical[1])
             IN  IF forced = <<"n","o","n","_","f","o","o","d">>
                 THEN Some(ClassificationResult(item, "non_food", None, 90,
                               <<"merchant_override", "non_food">>))
                 ELSE IF forced = <<"f","o","o","d">>
                 THEN Some(ClassificationResult(item, "food",
                               category_to_food_kind(rule.category), 80,
                               <<"merchant_override", "food">>))
                 ELSE IF rule.force_food_kind # None
                         /\ rule.force_food_kind[1] # <<>>
                 THEN Some(ClassificationResult(item, "food",
                               parse_food_kind(rule.force_food_kind[1]), 80,
                               <<"merchant_override", "food_kind">>))
                 ELSE IF category_to_food_kind(rule.category) # None
                 THEN Some(ClassificationResult(item, "food",
                               category_to_food_kind(rule.category), 70,
                               <<"merchant_category", rule.category[1]>>))
                 ELSE None

\* The first element of a keyword list that the guard g accepts.
FirstHit(keywords, g(_)) ==
    LET hits == {i \in 1..Len(keywords) : g(keywords[i])}
    IN  IF hits = {} THEN None
        ELSE Some(keywords[CHOOSE i \in hits : \A j \in hits : i <= j])

\* The rest of classify after the keyword rules (lines 185-247).
ClassifyByMerchant(cfg, item) ==
    IF MerchantOutcome(cfg, item) # None THEN MerchantOutcome(cfg, item)[1]
    ELSE IF cfg.assume_food_if_priced /\ item.line_total > 0
    THEN ClassificationResult(item, "food", cfg.default_food_kind, 55,
                              <<"assume_food_if_priced">>)
    ELSE ClassificationResult(item, "unknown", None, 40, <<"no_rule_match">>)

\* A variant of classify that tries the beverage keywords before the
\* non-food keywords.
classify_BeverageFirst(cfg, item) ==
    LET item_name == normalize_text(item.item_name_raw)
        NonFoodHit(k) == k # <<>> /\ Contains(item_name, k)
        Hit(k) == Contains(item_name, k)
    IN  IF \E k \in BEVERAGE_KEYWORDS : Hit(k)
        THEN ClassificationResult(item, "food", Some(<<"b","e","v","e","r","a","g","e">>), 70,
                                  <<"beverage_keyword">>)
        ELSE IF FirstHit(cfg.non_food_keywords, NonFoodHit) # None
        THEN ClassificationResult(item, "non_food", None, 95,
                 <<"non_food_keyword",
                   FirstHit(cfg.non_food_keywords, NonFoodHit)[1]>>)
        ELSE IF FirstHit(cfg.grocery_raw_keywords, Hit) # None
        THEN ClassificationResult(item, "food", Some(<<"g","r","o","c","e","r","y","_","r","a","w">>), 75,
                 <<"grocery_raw_keyword",
                   FirstHit(cfg.grocery_raw_keywords, Hit)[1]>>)
        ELSE ClassifyByMerchant(cfg, item)

\* RuleBasedClassifier.classify (lines 149-247); item_name_raw is the text
\* after `item.item_name_raw or ""`.
classify(cfg, item) ==
    LET item_name == normalize_text(item.item_name_raw)         \* line 151
        NonFoodHit(k) == k # <<>> /\ Contains(item_name, k)     \* line 154
        Hit(k) == Contains(item_name, k)
    IN  IF FirstHit(cfg.non_food_keywords, NonFoodHit) # None   \* 153-162
        THEN ClassificationResult(item, "non_food", None, 95,
                 <<"non_food_keyword",
                   FirstHit(cfg.non_food_keywords, NonFoodHit)[1]>>)
        ELSE IF FirstHit(cfg.grocery_raw_keywords, Hit) # None  \* 164-173
        THEN ClassificationResult(item, "food", Some(<<"g","r","o","c","e","r","y","_","r","a","w">>), 75,
                 <<"grocery_raw_keyword",
                   FirstHit(cfg.grocery_raw_keywords, Hit)[1]>>)
        ELSE IF \E k \in BEVERAGE_KEYWORDS : Hit(k)             \* 175-183
        THEN ClassificationResult(item, "food", Some(<<"b","e","v","e","r","a","g","e">>), 70,
                                  <<"beverage_keyword">>)
        ELSE ClassifyByMerchant(cfg, item)

\* Keyword lists as _load_non_food_keywords and _load_grocery_raw_keywords
\* return them: normalized texts; a blank entry of the file gives "".
NonFoodKeywordLists ==
    {<<>>, <<<<"f","e","e">>>>, <<<<>>, <<"b","a","g">>, <<"f","e","e">>>>}
GroceryKeywordLists == {<<>>, <<<<"e","g","g">>>>}

\* MerchantRule (lines 21-27)
MerchantRule(pattern, category, force_vertical, force_food_kind) ==
    [raw_patterns |-> <<pattern>>, category |-> category,
     force_vertical |-> force_vertical, force_food_kind |-> force_food_kind]

MerchantRuleLists ==
    {<<>>,
     <<MerchantRule(<<"C","a","f","e">>, Some(<<"C","o","f","f","e","e"," ">>), None, None)>>,
     <<MerchantRule(<<"C","a","f","e">>, Some(<<"b","a","n","k">>), None, None)>>,
     <<MerchantRule(<<"C","a","f","e">>, Some(<<"m","a","r","k","e","t">>), Some(<<"F","o","o","d">>), None)>>,
     <<MerchantRule(<<"C","a","f","e">>, None, Some(<<"N","O","N","_","F","O","O","D">>), None)>>,
     <<MerchantRule(<<"C","a","f","e">>, None, None, Some(<<"B","e","v","e","r","a","g","e">>))>>,
     <<MerchantRule(<<"C","a","f","e">>, None, None, Some(<<"s","n","a","c","k">>)),
       MerchantRule(<<"C","a","f","e">>, Some(<<"t","e","a">>), None, None)>>}

ClassifierPool ==
    [non_food_keywords : NonFoodKeywordLists,
     grocery_raw_keywords : GroceryKeywordLists,
     merchant_rules : MerchantRuleLists,
     assume_food_if_priced : BOOLEAN,
     default_food_kind : {None, Some(<<"p","r","e","p","a","r","e","d","_","m","e","a","l">>)}]

\* The items: name, merchant and line total (in cents).
ClassifyItemPool ==
    [event_id : {"e1"},
     item_name_raw : {<<>>, <<"B","o","x">>, <<"E","g","g">>, <<"I","c","e","d"," "," ","T","e","a">>,
                      <<"T","e","a"," ","B","a","g">>, <<"E","g","g"," ","F","e","e">>},
     merchant_name : {<<>>, <<"B","a","n","k">>, <<"T","h","e"," "," ","C","A","F","E">>},
     line_total : {0, 500}]

InitClassifier ==
    /\ SummaryInit
    /\ EvaluateIdle
    /\ RemoteIdle
    /\ RegionsIdle
    /\ LocalIdle
    /\ NormIdle
    /\ RegistryIdle
    /\ PipelineIdle
    /\ LimitIdle
    /\ MapperIdle
    /\ classifier \in ClassifierPool
    /\ citem \in ClassifyItemPool
    /\ cresult = None

\* classify(item) returns.
Classify ==
    /\ UNCHANGED notCore
    /\ UNCHANGED notClassifier
    /\ classifier # <<>> /\ cresult = None
    /\ cresult' = Some(classify(classifier, citem))
    /\ UNCHANGED <<classifier, citem>>

NextClassifier == Classify

SpecClassifier == InitClassifier /\ [][NextClassifier]_vars

\* The rules, by what makes each apply to the item classify was given.
NonFoodApplies ==
    \E i \in 1..Len(classifier.non_food_keywords) :
        /\ classifier.non_food_keywords[i] # <<>>
        /\ Contains(normalize_text(citem.item_name_raw),
                    classifier.non_food_keywords[i])
GroceryRawApplies ==
    \E i \in 1..Len(classifier.grocery_raw_keywords) :
        Contains(normalize_text(citem.item_name_raw),
                 classifier.grocery_raw_keywords[i])
BeverageApplies ==
    \E k \in BEVERAGE_KEYWORDS :
        Contains(normalize_text(citem.item_name_raw), k)
MerchantApplies == MerchantOutcome(classifier, citem) # None
AssumeFoodApplies == classifier.assume_food_if_priced /\ citem.line_total > 0

\* The rule the result names in its first reason.
RuleOf(result) ==
    LET tag == result.reasons[1][1]
    IN  IF tag \in {"merchant_override", "merchant_category"} THEN "merchant"
        ELSE tag

\* C22: classify returns the outcome of the first rule that applies, in
\* the order non-food keyword, grocery-raw keyword, beverage keyword,
\* merchant rule, assume-food-if-priced, unknown: a name that contains a
\* non-food keyword gives NON_FOOD whatever the merchant and the other
\* keywords, an item no rule applies to gives UNKNOWN, and food_kind is
\* None whenever the vertical is not FOOD.
C22_FirstRuleWins ==
    cresult # None =>
        LET r == cresult[1]
        IN  /\ RuleOf(r) =
                  IF NonFoodApplies THEN "non_food_keyword"
                  ELSE IF GroceryRawApplies THEN "grocery_raw_keyword"
                  ELSE IF BeverageApplies THEN "beverage_keyword"
                  ELSE IF MerchantApplies THEN "merchant"
                  ELSE IF AssumeFoodApplies THEN "assume_food_if_priced"
                  ELSE "no_rule_match"
            /\ NonFoodApplies => r.vertical = "non_food"
            /\ RuleOf(r) = "grocery_raw_keyword" =>
                  r.vertical = "food" /\ r.food_kind = Some(<<"g","r","o","c","e","r","y","_","r","a","w">>)
            /\ RuleOf(r) = "beverage_keyword" =>
                  r.vertical = "food" /\ r.food_kind = Some(<<"b","e","v","e","r","a","g","e">>)
            /\ RuleOf(r) = "merchant" => r = MerchantOutcome(classifier, citem)[1]
            /\ RuleOf(r) = "assume_food_if_priced" => r.vertical = "food"
            /\ RuleOf(r) = "no_rule_match" <=> r.vertical = "unknown"
            /\ r.vertical # "food" => r.food_kind = None

\* C22 witness: "Tea Bag" bought at a cafe whose rule forces FOOD, with
\* "bag" a non-food keyword, "tea" a beverage keyword and a positive line
\* total, was classified NON_FOOD.
C22_Witness ==
    /\ cresult # None
    /\ citem.item_name_raw = <<"T","e","a"," ","B","a","g">>
    /\ citem.merchant_name = <<"T","h","e"," "," ","C","A","F","E">>
    /\ citem.line_total > 0
    /\ classifier.assume_food_if_priced
    /\ NonFoodApplies /\ BeverageApplies /\ MerchantApplies
    /\ cresult[1].vertical = "non_food"
    /\ cresult[1].reasons = <<<<"non_food_keyword", <<"b","a","g">>>>>>

-----------------------------------------------------------------------------
(***************************************************************************)
(* load_local_index and evaluate over catalogs with longer descriptions:   *)
(* more than TOKEN_LIMIT tokens, short tokens, repeated tokens, posting    *)
(* lists of three different lengths.  One item per run.                    *)
(***************************************************************************)
WideCatalogPool ==
    { <<[fdc_id |-> 21, data_type |-> "foundation_food", description |-> <<"T","e","a"," ","B","a","g">>],
        [fdc_id |-> 22, data_type |-> "branded_food", description |-> <<"T","e","a">>],
        [fdc_id |-> 23, data_type |-> "foundation_food", description |-> <<"T","e","a"," ","B","a","g"," ","B","o","x">>]>>,
      <<[fdc_id |-> 31, data_type |-> "branded_food", description |-> <<"T","e","a">>],
        [fdc_id |-> 32, data_type |-> "branded_food", description |-> <<"B","a","g">>],
        [fdc_id |-> 33, data_type |-> "foundation_food", description |-> <<"B","o","x">>]>>,
      <<[fdc_id |-> 41, data_type |-> "sample_food", description |-> <<"C","u","p">>],
        [fdc_id |-> 42, data_type |-> "branded_food", description |-> <<" ">>],
        [fdc_id |-> 43, data_type |-> "branded_food", description |-> <<"!","!">>],
        [fdc_id |-> 44, data_type |-> "branded_food", description |-> <<"A"," ","T","e","a","-","B","a","g"," ","B","o","x"," ","C","u","p">>],
        [fdc_id |-> 45, data_type |-> "sr_legacy_food", description |-> <<"T","e","a"," ","t","e","a">>]>> }

WideItemPool ==
    { ITEM_TEA,
      [item_name |-> <<"T","e","a"," ","B","a","g"," ","B","o","x">>, merchant_name |-> <<>>, food_kind |-> None],
      [item_name |-> <<"T","e","a"," ","T","e","a"," ","B","a","g">>, merchant_name |-> <<>>, food_kind |-> None],
      [item_name |-> <<"B","o","x"," ","T","e","a">>, merchant_name |-> <<>>, food_kind |-> None],
      [item_name |-> <<"C","u","p">>, merchant_name |-> <<>>, food_kind |-> None],
      [item_name |-> <<"T","e","a">>, merchant_name |-> <<>>, food_kind |-> Some("grocery_packaged")],
      [item_name |-> <<"T","e","a"," ","B","o","x">>, merchant_name |-> <<>>, food_kind |-> Some("grocery_raw")] }

WideMaxCandidates == {None, Some(1), Some(2)}

InitCatalog ==
    /\ CoreIdle
    /\ SummaryInit
    /\ RegistryIdle
    /\ RegionsIdle
    \* The cache file may hold lines of an earlier remote run.
    /\ store \in StorePool
    /\ store0 = store
    /\ items = <<>> /\ retries = 0 /\ max_requests = None /\ cache = <<>>
    /\ pc = "idle" /\ idx = 0 /\ attempt = 0 /\ request_count = 0
    /\ results = <<>> /\ how = <<>> /\ scored_foods = <<>> /\ net_calls = 0
    /\ responses = <<>> /\ outcome = Outcome("none", RespNone)
    /\ NormIdle
    /\ min_score = DEFAULT_MIN_SCORE * SCORE_UNIT
    /\ include_merchant = FALSE
    /\ catalog \in WideCatalogPool
    /\ records = <<>>
    /\ token_index = <<>>
    /\ max_candidates \in WideMaxCandidates
    /\ litems \in SeqsOf(WideItemPool, 1, 1)
    /\ lpc = "index"
    /\ ridx = 1
    /\ lidx = 1
    /\ lresults = <<>>
    /\ scored = <<>>

SpecCatalog == InitCatalog /\ [][NextLocal]_vars

\* The query tokens of the item at position k, and the places among them
\* whose token has a posting list.
QueryTokens(k) == tokenize(litems[k].item_name)
Resolved(k) ==
    {i \in 1..Len(QueryTokens(k)) : QueryTokens(k)[i] \in DOMAIN token_index}
Posting(k, i) == token_index[QueryTokens(k)[i]]

\* C23: with the index built, choose_candidates gives the empty set when
\* no query token has a posting list, the posting list of the only token
\* that has one, and otherwise the union of two posting lists than which
\* no other resolved token's list is shorter; no position of the result
\* occurs only in lists longer than both.
C23_TwoShortestLists ==
    lpc \in {"eval", "done"} =>
        \A k \in 1..Len(litems) :
            LET cands == CandidateSet(QueryTokens(k), token_index)
                res   == Resolved(k)
            IN  /\ res = {} => cands = {}
                /\ Cardinality(res) = 1 =>
                      \A i \in res : cands = Range(Posting(k, i))
                /\ Cardinality(res) >= 2 =>
                      \E i, j \in res :
                          /\ i # j
                          /\ \A o \in res \ {i, j} :
                                /\ Len(Posting(k, o)) >= Len(Posting(k, i))
                                /\ Len(Posting(k, o)) >= Len(Posting(k, j))
                          /\ cands = Range(Posting(k, i)) \cup Range(Posting(k, j))
                          /\ \A p \in cands :
                                \E o \in res :
                                    /\ p \in Range(Posting(k, o))
                                    /\ Len(Posting(k, o)) <=
                                          Max2(Len(Posting(k, i)), Len(Posting(k, j)))

\* C23 witness: "Tea Bag Box" against an index whose lists for box, bag
\* and tea have one, two and three positions: the candidates scored are
\* the records of box and bag, and the record that only tea lists is left
\* out.
C23_Witness ==
    /\ lpc = "done" /\ Len(scored) = 1
    /\ max_candidates = None
    /\ litems[1].item_name = <<"T","e","a"," ","B","a","g"," ","B","o","x">>
    /\ Cardinality(Resolved(1)) = 3
    /\ Len(token_index[<<"t","e","a">>]) = 3
    /\ Len(token_index[<<"b","a","g">>]) = 2
    /\ Len(token_index[<<"b","o","x">>]) = 1
    /\ CandidateSet(QueryTokens(1), token_index) = {1, 3}
    /\ scored[1] = <<1, 3>>

\* The catalog rows read so far that the claim lets into the index: a
\* category of the allow-list and a description that is not blank.
RECURSIVE RowsLetIn(_)
RowsLetIn(n) ==
    IF n = 0 THEN <<>>
    ELSE IF /\ catalog[n].data_type \in LocalAllowedTypes
            /\ \E c \in Range(catalog[n].description) : c \notin SPACES
         THEN Append(RowsLetIn(n - 1), catalog[n])
         ELSE RowsLetIn(n - 1)

\* The first TOKEN_LIMIT tokens of length >= MIN_TOKEN_LEN of the
\* normalized description of the record at position i.
FirstLongTokens(i) ==
    LET long == SelectSeq(Split(records[i].description_norm),
                          LAMBDA t : Len(t) >= MIN_TOKEN_LEN)
    IN  {long[j] : j \in {x \in 1..Len(long) : x <= TOKEN_LIMIT}}

\* C24: at every point of load_local_index the records are the rows read
\* so far that have an allowed category and a non-blank description, in
\* file order (other rows get no position); position i is in the posting
\* list of term t exactly when t is one of the first 3 tokens of length
\* >= 3 of record i's normalized description; every position in a posting
\* list is a position of the record list.
C24_IndexContent ==
    /\ Len(records) = Len(RowsLetIn(ridx - 1))
    /\ \A i \in 1..Len(records) :
          /\ records[i].fdc_id = RowsLetIn(ridx - 1)[i].fdc_id
          /\ records[i].data_type = RowsLetIn(ridx - 1)[i].data_type
          /\ \A t \in DOMAIN token_index \cup FirstLongTokens(i) :
                (t \in DOMAIN token_index /\ i \in Range(token_index[t]))
                    <=> t \in FirstLongTokens(i)
    /\ \A t \in DOMAIN token_index :
          Range(token_index[t]) \subseteq 1..Len(records)

\* C24 witness: a catalog of five rows, one of a category outside the
\* allow-list and one blank, gave three records; "A Tea-Bag Box Cup" is
\* listed under tea, bag and box, and neither "a" nor "cup" is a term.
C24_Witness ==
    /\ lpc = "eval"
    /\ Len(catalog) = 5 /\ Len(records) = 3
    /\ records[2].description = <<"A"," ","T","e","a","-","B","a","g"," ","B","o","x"," ","C","u","p">>
    /\ DOMAIN token_index = {<<"t","e","a">>, <<"b","a","g">>, <<"b","o","x">>}
    /\ 2 \in Range(token_index[<<"t","e","a">>])
    /\ token_index[<<"b","a","g">>] = <<2>>
    /\ token_index[<<"b","o","x">>] = <<2>>

\* The allowed category set of the item at position k: the data types
\* picked for its food kind, under their local names.
AllowedTypes(k) ==
    Range(map_local_types(pick_data_types(litems[k].food_kind, FALLBACK_TYPES)))

\* The chosen candidates of item k whose record has an allowed category.
AllowedCandidates(k) ==
    {c \in CandidateSet(QueryTokens(k), token_index) :
        records[c].data_type \in AllowedTypes(k)}

\* C25: for every item processed in local mode that has a category
\* filter, each scored candidate is a chosen candidate whose record
\* category is in the item's allowed set, and the filter comes before the
\* truncation: the number of scored candidates is the number of allowed
\* candidates, cut to max_candidates when that is set (and not 0).
C25_FilterBeforeTruncation ==
    \A k \in 1..Len(scored) :
        AllowedTypes(k) # {} =>
            /\ Range(scored[k]) \subseteq AllowedCandidates(k)
            /\ Len(scored[k]) =
                  IF /\ max_candidates # None /\ max_candidates[1] # 0
                     /\ Cardinality(AllowedCandidates(k)) > max_candidates[1]
                  THEN max_candidates[1]
                  ELSE Cardinality(AllowedCandidates(k))

\* C25 witness: a packaged "Tea" with max_candidates = 1; three records
\* were chosen, the only Branded one is the second, and it was scored.
C25_Witness ==
    /\ Len(scored) = 1
    /\ max_candidates = Some(1)
    /\ litems[1].food_kind = Some("grocery_packaged")
    /\ AllowedTypes(1) = {"branded_food"}
    /\ CandidateSet(QueryTokens(1), token_index) = {1, 2, 3}
    /\ AllowedCandidates(1) = {2}
    /\ scored[1] = <<2>>
    /\ lresults[1].fdc_id = Some(22)

\* C30: a run of evaluate with a local index makes no remote fetch, reads
\* no cache and appends nothing to it: the cache file is as the run found
\* it, the cache dict is empty, and the request count and the number of
\* calls of fetch_fdc stay 0.
C30_LocalModeLeavesCacheAlone ==
    /\ store = store0
    /\ cache = <<>>
    /\ request_count = 0
    /\ net_calls = 0

\* C30 witness: the cache file holds a line for the key of "Tea"; the run
\* in local mode matched "Tea" to the catalog record and returned, and the
\* file still holds that one line.
C30_Witness ==
    /\ lpc = "done" /\ Len(lresults) = 1
    /\ litems[1] = ITEM_TEA
    /\ Len(store) = 1 /\ store[1].key = CacheKey(ITEM_TEA)
    /\ store = store0
    /\ lresults[1].fdc_id = Some(22)
    /\ request_count = 0

\* C28 (as claimed): every region reported as matched for a city, by the
\* override, the exact-normalized or the fuzzy tier, is an element of the
\* region catalog.
C28_MatchedInCatalog ==
    \A city \in DOMAIN matched : matched[city] \in Range(regions)

-----------------------------------------------------------------------------
(***************************************************************************)
(* evaluate in remote mode with the merchant signal: one item per run,     *)
(* scored against foods with and without a brand, from the cache file or   *)
(* from the API.                                                           *)
(***************************************************************************)
BlendItemPool ==
    { ITEM_TEA,
      [item_name |-> <<"T","e","a">>, merchant_name |-> <<"A","c","m","e">>, food_kind |-> None],
      [item_name |-> <<"T","e","a">>, merchant_name |-> <<"!","!">>, food_kind |-> None] }

\* The foods of the cached line.
BlendFoodLists ==
    { <<[fdcId |-> 51, description |-> <<"T","e","a"," ","B","a","g">>, dataType |-> "Branded",
         brandOwner |-> <<"A","c","m","e">>, brandName |-> <<>>]>>,
      <<[fdcId |-> 52, description |-> <<"T","e","a">>, dataType |-> "Branded",
         brandOwner |-> <<>>, brandName |-> <<"A","C","M","E"," ","I","n","c">>]>>,
      <<[fdcId |-> 53, description |-> <<"T","e","a">>, dataType |-> "Branded",
         brandOwner |-> <<"!","!">>, brandName |-> <<>>]>>,
      <<[fdcId |-> 54, description |-> <<"T","e","a">>, dataType |-> "Branded",
         brandOwner |-> <<>>, brandName |-> <<>>]>>,
      <<[fdcId |-> 55, description |-> <<"T","e","a">>, dataType |-> "Branded",
         brandOwner |-> <<>>, brandName |-> <<>>],
        [fdcId |-> 56, description |-> <<"t","e","a">>, dataType |-> "Branded",
         brandOwner |-> <<>>, brandName |-> <<>>],
        [fdcId |-> 57, description |-> <<"T","e","a","s">>, dataType |-> "Branded",
         brandOwner |-> <<>>, brandName |-> <<>>]>> }

BlendStorePool ==
    {<<>>} \cup {append_cache(<<>>, CacheKey(ITEM_TEA), foods) :
                      foods \in BlendFoodLists}

InitBlend ==
    /\ CoreIdle
    /\ SummaryInit
    /\ RegistryIdle
    /\ RegionsIdle
    /\ LocalIdle
    /\ NormIdle
    /\ min_score = DEFAULT_MIN_SCORE * SCORE_UNIT
    /\ include_merchant \in BOOLEAN
    /\ items \in SeqsOf(BlendItemPool, 1, 1)
    /\ retries \in {0, 1}
    /\ max_requests \in {None, Some(0)}
    /\ store \in BlendStorePool
    /\ store0 = store
    /\ cache = evaluate_cache(FALSE, store)     \* line 318
    /\ pc = "loop"
    /\ idx = 1
    /\ attempt = 0
    /\ request_count = 0
    /\ results = <<>>
    /\ how = <<>>
    /\ scored_foods = <<>>
    /\ net_calls = 0
    /\ responses = <<>>
    /\ outcome = Outcome("none", RespNone)

SpecBlend == InitBlend /\ [][NextRemote]_vars

\* The two sides of the secondary comparison, as they are compared: the
\* normalized merchant text of the item and the normalized brand text of
\* the candidate.
MerchantCompared(item) == normalize(item.merchant_name)
BrandCompared(cand) ==
    normalize(IF cand.brandOwner # <<>> THEN cand.brandOwner ELSE cand.brandName)

\* The final score the claim gives a candidate.
ClaimedScore(item, cand) ==
    LET primary == WRatio(normalize(item.item_name), normalize(cand.description))
    IN  IF /\ include_merchant
           /\ MerchantCompared(item) # <<>>
           /\ BrandCompared(cand) # <<>>
        THEN Blend(primary, WRatio(MerchantCompared(item), BrandCompared(cand)))
        ELSE primary

\* C26 (as claimed): in remote mode a candidate's final score is
\* 0.8 * primary + 0.2 * secondary exactly when the merchant signal is
\* enabled and the merchant text and the brand text, as compared, are both
\* non-empty, and the primary score alone otherwise; the score stored for
\* an item with one positive-scoring candidate is that final score.
C26_BlendIffBothSides ==
    \A k \in 1..Len(results) :
        /\ \A c \in 1..Len(scored_foods[k]) :
              CandScore(items[k], scored_foods[k][c], include_merchant)
                  = ClaimedScore(items[k], scored_foods[k][c])
        /\ (Len(scored_foods[k]) = 1
                /\ ClaimedScore(items[k], scored_foods[k][1]) > 0) =>
              results[k].score = Round2(ClaimedScore(items[k], scored_foods[k][1]))

-----------------------------------------------------------------------------
(***************************************************************************)
(* bitegraph/core/map_templates.py: TemplateIngredientMapper               *)
(* ._best_dish_match.  WRatio is applied to the raw item name and alias.   *)
(***************************************************************************)
\* match_threshold default (line 67)
DEFAULT_MATCH_THRESHOLD == 85

\* The (dish, alias) pairs in the order the two loops of lines 183-184
\* visit them: dish is the position in self.dishes.
RECURSIVE AliasPairs(_, _)
AliasPairs(ds, n) ==
    IF n = 0 THEN <<>>
    ELSE AliasPairs(ds, n - 1)
         \o [a \in 1..Len(ds[n].aliases) |->
                [dish |-> n, alias |-> ds[n].aliases[a]]]

\* The loop of lines 182-187 over pairs[1..n]: None, or <<(dish, alias,
\* score)>>.
RECURSIVE DishBest(_, _, _)
DishBest(item_name, pairs, n) ==
    IF n = 0 THEN None
    ELSE LET best  == DishBest(item_name, pairs, n - 1)
             score == WRatio(item_name, pairs[n].alias)
         IN  IF best = None \/ score > best[1].score
             THEN Some([dish |-> pairs[n].dish, alias |-> pairs[n].alias,
                        score |-> score, at |-> n])
             ELSE best

\* _best_dish_match (lines 179-190): the best it retained and what it
\* returned.
best_dish_match(ds, threshold, item_name) ==
    IF item_name = <<>> THEN [best |-> None, returned |-> None]  \* 180-181
    ELSE LET pairs == AliasPairs(ds, Len(ds))
             best  == DishBest(item_name, pairs, Len(pairs))
         IN  [best |-> best,
              returned |-> IF best # None
                              /\ best[1].score >= threshold * SCORE_UNIT
                           THEN best ELSE None]                  \* 188-190

\* self.dishes as _load_dish_templates builds it: the name is the first
\* alias (line 89).
DishLists ==
    { <<>>,
      <<[canonical_food_id |-> "pizza", aliases |-> <<<<"P","i","z","z","a">>, <<"P","i","e">>>>], [canonical_food_id |-> "pie", aliases |-> <<<<"P","i","e">>, <<"P","i","e","s">>>>]>>,
      <<[canonical_food_id |-> "tea", aliases |-> <<<<"T","e","a">>>>], [canonical_food_id |-> "iced_tea", aliases |-> <<<<"T","e","a">>, <<"I","c","e","d"," ","T","e","a">>>>]>> }

DishNamePool == {<<>>, <<"P","i","e">>, <<"T","e","a">>, <<"P","i","e","s">>, <<"R","u","m">>}

ThresholdPool == {50, DEFAULT_MATCH_THRESHOLD, 100}

InitMapper ==
    /\ SummaryInit
    /\ EvaluateIdle
    /\ RemoteIdle
    /\ RegionsIdle
    /\ LocalIdle
    /\ NormIdle
    /\ RegistryIdle
    /\ PipelineIdle
    /\ ClassifierIdle
    /\ LimitIdle
    /\ dishes \in DishLists
    /\ match_threshold \in ThresholdPool
    /\ dish_name \in DishNamePool
    /\ dish_out = None

\* _best_dish_match(item_name) returns.
BestDishMatch ==
    /\ UNCHANGED notCore
    /\ UNCHANGED notMapper
    /\ match_threshold # 0 /\ dish_out = None      \* a mapper is in use
    /\ dish_out' = Some(best_dish_match(dishes, match_threshold, dish_name))
    /\ UNCHANGED <<dishes, match_threshold, dish_name>>

NextMapper == BestDishMatch

SpecMapper == InitMapper /\ [][NextMapper]_vars

-----------------------------------------------------------------------------
(***************************************************************************)
(* The three scoring loops together.                                       *)
(***************************************************************************)
InitTies == InitBlend \/ InitCatalog \/ InitMapper

NextTies == NextRemote \/ NextLocal \/ NextMapper

SpecTies == InitTies /\ [][NextTies]_vars

\* The first place of a non-empty list of scores that holds its maximum.
FirstMax(scores) ==
    CHOOSE p \in 1..Len(scores) :
        /\ \A q \in 1..Len(scores) : scores[q] <= scores[p]
        /\ \A q \in 1..(p - 1) : scores[q] < scores[p]

\* The scores of the candidates scored for the k-th item, in candidate
\* order: local mode, remote mode.
LocalScores(k) ==
    [c \in 1..Len(scored[k]) |->
        WRatio(normalize(litems[k].item_name),
               records[scored[k][c]].description_norm)]
RemoteScores(k) ==
    [c \in 1..Len(scored_foods[k]) |->
        CandScore(items[k], scored_foods[k][c], include_merchant)]

\* C27: in each of the three loops the retained best candidate has the
\* highest score among the scored candidates and is the first of them, in
\* candidate order, to reach it, with that score as best score; a record
\* or food reported as the match is that candidate.
C27_FirstMaxWins ==
    /\ \A k \in 1..Len(lresults) :
          LET best   == BestLocal(litems[k].item_name, scored[k], records,
                                  Len(scored[k]))
              scores == LocalScores(k)
              first  == FirstMax(scores)
          IN  /\ best[1] # None =>
                    /\ best[1][1] = scored[k][first]
                    /\ best[2] = scores[first]
              /\ lresults[k].fdc_id # None =>
                    lresults[k].fdc_id = Some(records[scored[k][first]].fdc_id)
    /\ \A k \in 1..Len(results) :
          LET best   == BestRemote(items[k], scored_foods[k], include_merchant,
                                   Len(scored_foods[k]))
              scores == RemoteScores(k)
              first  == FirstMax(scores)
          IN  /\ best[1] # None =>
                    /\ best[1][1] = first
                    /\ best[2] = scores[first]
              /\ results[k].fdc_id # None =>
                    results[k].fdc_id = Some(scored_foods[k][first].fdcId)
    /\ (dish_out # None /\ dish_out[1].best # None) =>
          LET pairs  == AliasPairs(dishes, Len(dishes))
              scores == [p \in 1..Len(pairs) |-> WRatio(dish_name, pairs[p].alias)]
              first  == FirstMax(scores)
              best   == dish_out[1].best[1]
          IN  /\ best.at = first
              /\ best.score = scores[first]
              /\ best.dish = pairs[first].dish
              /\ dish_out[1].returned \in {None, dish_out[1].best}

\* C27 witness: "Box Tea" was scored against the records "Tea" and "Box",
\* in that order, with equal scores, and the first one was reported.
C27_Witness ==
    /\ Len(lresults) = 1
    /\ litems[1].item_name = <<"B","o","x"," ","T","e","a">>
    /\ Len(scored[1]) = 2
    /\ LocalScores(1)[1] = LocalScores(1)[2]
    /\ records[scored[1][1]].description = <<"T","e","a">>
    /\ records[scored[1][2]].description = <<"B","o","x">>
    /\ lresults[1].fdc_id = Some(records[scored[1][1]].fdc_id)

-----------------------------------------------------------------------------
(***************************************************************************)
(* scripts/fdc_map_eval.py: limit_items.                                   *)
(***************************************************************************)
MaxLimitItems == 3

\* The key of line 222.
ItemKey(item) == <<item.item_name, item.food_kind>>

\* The loop of lines 221-228 over items[1..n]: the list `limited`, and
\* whether the loop has returned it (line 228).
RECURSIVE UniqueLoop(_, _, _)
UniqueLoop(its, max_unique, n) ==
    IF n = 0 THEN [limited |-> <<>>, returned |-> FALSE]
    ELSE LET prev == UniqueLoop(its, max_unique, n - 1)
         IN  IF prev.returned THEN prev
             ELSE IF \E j \in 1..Len(prev.limited) :
                        ItemKey(prev.limited[j]) = ItemKey(its[n])
             THEN prev                                      \* 223-224
             ELSE [limited  |-> Append(prev.limited, its[n]),
                   returned |-> /\ max_unique # None /\ max_unique[1] # 0
                                /\ Len(prev.limited) + 1 >= max_unique[1]]

\* limit_items (lines 212-232); max_items and max_unique are None or <<n>>.
limit_items(its, max_items, max_unique, unique_only) ==
    LET dedupe == unique_only \/ (max_unique # None /\ max_unique[1] # 0)
        loop   == UniqueLoop(its, max_unique, Len(its))
        rest   == IF dedupe THEN loop.limited ELSE its      \* line 229
    IN  IF dedupe /\ loop.returned THEN loop.limited        \* line 228
        ELSE IF max_items # None /\ max_items[1] # 0
        THEN Take(rest, max_items[1])                       \* 230-231
        ELSE rest                                           \* line 232

\* ItemRow (lines 43-47)
LimitItemPool ==
    [item_name : {"Tea", "Rum"}, merchant_name : {"Acme"}, food_kind : {None}]
        \cup {[item_name |-> "Tea", merchant_name |-> "Bolt", food_kind |-> None]}

\* --max-items and --max-unique (lines 564-565): absent, or a positive int.
LimitPool == {None, Some(1), Some(2)}

InitLimit ==
    /\ SummaryInit
    /\ EvaluateIdle
    /\ RemoteIdle
    /\ RegionsIdle
    /\ LocalIdle
    /\ NormIdle
    /\ RegistryIdle
    /\ PipelineIdle
    /\ ClassifierIdle
    /\ MapperIdle
    /\ lim_args \in [items : SeqsOf(LimitItemPool, 0, MaxLimitItems),
                     max_items : LimitPool, max_unique : LimitPool,
                     unique_only : BOOLEAN]
    /\ lim_out = None

\* limit_items returns.
LimitItems ==
    /\ UNCHANGED notCore
    /\ UNCHANGED notLimit
    /\ lim_args # <<>> /\ lim_out = None
    /\ lim_out' = Some(limit_items(lim_args.items, lim_args.max_items,
                                   lim_args.max_unique, lim_args.unique_only))
    /\ UNCHANGED lim_args

NextLimit == LimitItems

SpecLimit == InitLimit /\ [][NextLimit]_vars

\* The first occurrences of the keys among its[1..n], in input order.
RECURSIVE FirstOccurrences(_, _)
FirstOccurrences(its, n) ==
    IF n = 0 THEN <<>>
    ELSE IF \E j \in 1..(n - 1) : ItemKey(its[j]) = ItemKey(its[n])
         THEN FirstOccurrences(its, n - 1)
         ELSE Append(FirstOccurrences(its, n - 1), its[n])

\* C29 (as claimed): when max_items is set the returned list has at most
\* max_items items, whatever max_unique and unique_only are; when
\* unique_only or max_unique is set the returned list has no two items
\* with the same (item_name, food_kind) and is made of first occurrences,
\* in input order.
C29_LimitItems ==
    lim_out # None =>
        LET out   == lim_out[1]
            first == FirstOccurrences(lim_args.items, Len(lim_args.items))
        IN  /\ lim_args.max_items # None => Len(out) <= lim_args.max_items[1]
            /\ (lim_args.unique_only \/ lim_args.max_unique # None) =>
                  /\ \A i, j \in 1..Len(out) :
                        ItemKey(out[i]) = ItemKey(out[j]) => i = j
                  /\ Len(out) <= Len(first)
                  /\ out = SubSeq(first, 1, Len(out))

=============================================================================
